---- MODULE Spec2Model ----
(***************************************************************************)
(* Verification model of sh3redux's archive layer:                         *)
(*   - sh3::arc::subarc  (source/SH3/arc/subarc.cpp, subarc.hpp)           *)
(*   - sh3::arc::mft     (mft.cpp)                                          *)
(* 32-bit unsigned fields are kept at their width as two 16-bit halves     *)
(* <<hi, lo>>, so that uint32 arithmetic wraps exactly as in the build.    *)
(***************************************************************************)
EXTENDS Integers, Sequences, FiniteSets, TLC

VARIABLES
    disk,       \* bytes of the section file on disk, or <<>> when it is missing
    file,       \* subarc::file : [open, bytes] the memory mapped section
    files,      \* subarc::files : filename -> index_t
    buffer,     \* the caller's std::vector<std::uint8_t>
    insert,     \* the caller's insertion iterator, as a position in buffer
    fault,      \* "none", or how the process stopped
    last,       \* what the last call did (observation of the call, not program state)
    want,       \* [buf, cur]: buffer and cursor that subarc.hpp documents for the loads made
    calls,      \* number of LoadFile calls made so far
    seen,       \* the bytes on disk when Reopen() last ran
    wide,       \* LoadFile on a section of any size, by sizes alone (see WideLoad)
    arch,       \* the sections that were written to arc.arc
    gz,         \* the gzip stream of arc.arc: [bytes, mode]
    mft,        \* the mft object and the sections loaded from it
    sect,       \* the section filled by the last ReadNextSection, and the reads it made
    req,        \* one ReadData / ReadString call on a stream (ReadDataCall, ReadStringCall)
    rc,         \* a resource<header>, the asset behind its file name, and the last call on it
    px,         \* one evaluation of a header function or of a block of the pixel decoder
    man         \* a resource_manager, its live resource_ref objects, and the last call on it

arcVars == <<disk, file, files, buffer, insert, fault, last, want, calls, seen>>

mftVars == <<arch, gz, mft, sect>>

texVars == <<rc, px, man>>

vars == <<arcVars, wide, mftVars, req, texVars>>

(***************************************************************************)
(* Bounds of the model                                                     *)
(***************************************************************************)
SmallBuf == 2       \* the caller's buffer starts with 0..SmallBuf bytes, or with LargeBuf
LargeBuf == 52
MaxIndex == 2       \* LoadFile is called with index 0..MaxIndex
MaxCalls == 3       \* at most MaxCalls calls of LoadFile in one run

(***************************************************************************)
(* Fixed-width integers                                                    *)
(***************************************************************************)
Half == 65536

\* a std::uint32_t, as <<high half, low half>>
U32(hi, lo) == <<hi, lo>>

\* a small natural number as a 32-bit (or wider: the high half is not capped) value
Wide(n) == <<n \div Half, n % Half>>

\* uint32 + uint32 in uint32 arithmetic: the carry out of bit 31 is lost
U32Add(a, b) ==
    LET lo == a[2] + b[2]
        hi == a[1] + b[1] + (lo \div Half)
    IN  <<hi % Half, lo % Half>>

\* the mathematical sum, in a wide value
WideAdd(a, b) ==
    LET lo == a[2] + b[2]
    IN  <<a[1] + b[1] + (lo \div Half), lo % Half>>

\* a >= b on wide values
WideGe(a, b) == a[1] > b[1] \/ (a[1] = b[1] /\ a[2] >= b[2])

\* the value of a wide number whose high half is zero
Low(a) == a[2]

\* little-endian decode of 4 bytes at position p (1-based) of a byte sequence
ReadU32(bytes, p) ==
    U32(bytes[p + 2] + 256 * bytes[p + 3], bytes[p] + 256 * bytes[p + 1])

\* little-endian encoding of a uint32
Bytes32(v) == <<v[2] % 256, v[2] \div 256, v[1] % 256, v[1] \div 256>>

\* static_cast<int>(std::uint32_t): the two's complement reading of the 32 bits
StaticCastInt(v) ==
    IF v[1] < Half \div 2 THEN v[1] * Half + v[2] ELSE (v[1] - Half) * Half + v[2]

(***************************************************************************)
(* Section file layout (subarc.cpp)                                        *)
(***************************************************************************)
SubarcHeaderSize == 16
SubarcEntrySize == 16
arcFileNotFound == -1

\* 0x20030507
SubarcMagic == U32(8195, 1287)

RECURSIVE Flatten(_)
Flatten(ss) == IF ss = <<>> THEN <<>> ELSE Head(ss) \o Flatten(Tail(ss))

\* bytes of one subarc_file_entry {offset, fileID, length, length2}
EntryBytes(offset, length) ==
    Bytes32(offset) \o Bytes32(U32(0, 0)) \o Bytes32(length) \o Bytes32(length)

\* a section file: header, file-entry table, payload
ArcImage(magic, entries, data) ==
    Bytes32(magic) \o Bytes32(Wide(Len(entries)))
        \o Bytes32(Wide(SubarcHeaderSize + SubarcEntrySize * Len(entries)))
        \o Bytes32(U32(0, 0))
        \o Flatten([i \in 1..Len(entries) |-> EntryBytes(entries[i][1], entries[i][2])])
        \o data

\* payload bytes 100, 101, ...
Payload(n) == [i \in 1..n |-> 99 + i]

\* the caller's own bytes 200, 201, ...
CallerBytes(n) == [i \in 1..n |-> 199 + i]

\* 0x20030417, the magic of arc.arc: a section file that starts with it is rejected
MftMagic == U32(8195, 1047)

OneEntryImage == ArcImage(SubarcMagic, <<<<Wide(32), Wide(32)>>>>, Payload(32))
TwoEntryImage == ArcImage(SubarcMagic, <<<<Wide(48), Wide(3)>>, <<Wide(51), Wide(2)>>>>, Payload(5))
\* entry 1 ends 6 bytes after the end of the file
PastEndImage == ArcImage(SubarcMagic, <<<<Wide(48), Wide(3)>>, <<Wide(51), Wide(8)>>>>, Payload(5))
\* entry 1 has offset 0xFFFFFFFC and length 8
WrapImage == ArcImage(SubarcMagic, <<<<Wide(48), Wide(3)>>, <<U32(65535, 65532), Wide(8)>>>>, Payload(5))
BadMagicImage == ArcImage(MftMagic, <<<<Wide(48), Wide(3)>>, <<Wide(51), Wide(2)>>>>, Payload(5))
\* one entry; the 16 bytes of payload have the layout of an entry {32, 0, 2, 2}
EntryInDataImage ==
    ArcImage(SubarcMagic, <<<<Wide(32), Wide(16)>>>>, EntryBytes(Wide(32), Wide(2)))
MissingFile == <<>>

DiskImages ==
    {OneEntryImage, TwoEntryImage, PastEndImage, WrapImage, BadMagicImage, EntryInDataImage,
     MissingFile}

Names == {"a", "b", "c"}

\* the files_map the constructor is given: "a" and "b" are known, "c" is not
FilesMap == [n \in {"a", "b"} |-> IF n = "a" THEN 0 ELSE 1]

(***************************************************************************)
(* subarc::Reopen                                                          *)
(***************************************************************************)
ClosedFile == [open |-> FALSE, bytes |-> <<>>]

\* file.open(path): the mapping of the file on disk, closed if it cannot be opened
OpenMapped(d) == IF d = MissingFile THEN ClosedFile ELSE [open |-> TRUE, bytes |-> d]

\* a Reopen that logs the magic mismatch and forgets file.close()
AfterBadMagicKeptOpen(f) == f

\* what is left after a magic mismatch: file.close()
AfterBadMagic(f) == ClosedFile

Reopened(d) ==
    LET f == OpenMapped(d)
    IN  IF ~f.open THEN f
        ELSE IF ReadU32(f.bytes, 1) # SubarcMagic THEN AfterBadMagic(f)
        ELSE f

(***************************************************************************)
(* subarc::LoadFile                                                        *)
(***************************************************************************)
\* std::vector::resize(n): truncates, or appends value-initialised bytes
Resize(buf, n) == [i \in 1..n |-> IF i <= Len(buf) THEN buf[i] ELSE 0]

\* std::copy(dataBegin, dataEnd, insert), insert at position ins (0-based)
CopyAt(buf, ins, data) ==
    [i \in 1..Len(buf) |->
        IF i > ins /\ i <= ins + Len(data) THEN data[i - ins] ELSE buf[i]]

NoEntry == [offset |-> U32(0, 0), fileID |-> U32(0, 0), length |-> U32(0, 0), length2 |-> U32(0, 0)]

\* the subarc_file_entry that the reinterpret_cast reads at sizeof(header) + index * 16
EntryAt(bytes, index) ==
    LET p == SubarcHeaderSize + index * SubarcEntrySize + 1
    IN  [offset |-> ReadU32(bytes, p), fileID |-> ReadU32(bytes, p + 4),
         length |-> ReadU32(bytes, p + 8), length2 |-> ReadU32(bytes, p + 12)]

\* if(!file)
FileClosed(open) == ~open

\* ASSERT(file.size() >= sizeof(subarc_header) + (index + 1) * sizeof(subarc_file_entry))
RecordInBounds(size, index) ==
    WideGe(size, Wide(SubarcHeaderSize + (index + 1) * SubarcEntrySize))

\* ASSERT(file.size() >= fileEntry.offset + fileEntry.length): the sum is a uint32
EntryInBounds(size, e) == WideGe(size, U32Add(e.offset, e.length))

\* the bytes [offset, offset + length) really lie in the mapping
RangeMapped(size, e) == WideGe(size, WideAdd(e.offset, e.length))

\* if(space < fileEntry.length)
NeedsResize(space, length) == ~WideGe(Wide(space), length)

\* buffer.resize(fileEntry.length - static_cast<size_type>(space))
ResizedSize(len, space) == len - space

\* advance(insert, fileEntry.offset)
AdvanceBy(e) == Low(e.offset)

\* return static_cast<int>(fileEntry.length)
ReturnValue(e) == StaticCastInt(e.length)

\* How far LoadFile(index, ...) gets, by the checks it makes before the copy; e is
\* the entry at index (read only once the record is known to be mapped)
LoadPath(open, size, index, e, space) ==
    IF FileClosed(open) THEN "notfound"
    ELSE IF ~RecordInBounds(size, index) THEN "assert-record"
    ELSE IF ~EntryInBounds(size, e) THEN "assert-entry"
    ELSE IF space < 0 THEN "assert-space"
    ELSE IF ~RangeMapped(size, e) THEN "wild-read"
    ELSE "copy"

Outcome(ret, buf, ins, flt, e, rd, ub, oob) ==
    [ret |-> ret, buffer |-> buf, insert |-> ins, fault |-> flt, entry |-> e,
     read |-> rd, ub |-> ub, oob |-> oob]

\* undefined behaviour: the process crashes, or goes on in a state nothing is known of
Undefined(buf, ins, e, oob) ==
    {Outcome(0, buf, ins, flt, e, TRUE, TRUE, oob) : flt \in {"crash", "ub"}}

\* from the copy on: the entry was read and the assertions passed
CopyOutcomes(f, e, buf, ins) ==
    LET off   == Low(e.offset)
        len   == Low(e.length)
        data  == SubSeq(f.bytes, off + 1, off + len)
        space == Len(buf) - ins
        grow  == NeedsResize(space, e.length)
        buf1  == IF grow THEN Resize(buf, ResizedSize(len, space)) ELSE buf
        ins1  == IF grow THEN Len(buf1) - len ELSE ins   \* prev(end(buffer), length)
    IN  IF ins1 < 0 \/ ins1 + len > Len(buf1)
        THEN \* the copy writes outside the buffer
             Undefined(buf1, ins1, e, FALSE)
        ELSE LET buf2 == CopyAt(buf1, ins1, data)
                 ins2 == ins1 + AdvanceBy(e)
             IN  IF ins2 > Len(buf2)
                 THEN \* an iterator past end(): checked iterators abort, plain
                      \* pointers go on with the position past the end
                      {Outcome(0, buf2, ins2, "crash", e, TRUE, TRUE, FALSE),
                       Outcome(ReturnValue(e), buf2, ins2, "none", e, TRUE, TRUE, FALSE)}
                 ELSE {Outcome(ReturnValue(e), buf2, ins2, "none", e, TRUE, FALSE, FALSE)}

\* LoadFile(index_t index, buffer, insert): the set of possible outcomes
LoadFileIndex(f, index, buf, ins) ==
    LET size == Wide(Len(f.bytes))
        e    == IF f.open /\ RecordInBounds(size, index) THEN EntryAt(f.bytes, index) ELSE NoEntry
        path == LoadPath(f.open, size, index, e, Len(buf) - ins)
    IN  CASE path = "notfound" ->
                {Outcome(arcFileNotFound, buf, ins, "none", NoEntry, FALSE, FALSE, FALSE)}
          [] path = "assert-record" ->
                {Outcome(0, buf, ins, "assert", NoEntry, FALSE, FALSE, FALSE)}
          [] path \in {"assert-entry", "assert-space"} ->
                {Outcome(0, buf, ins, "assert", e, TRUE, FALSE, FALSE)}
          [] path = "wild-read" ->
                \* std::copy reads outside the mapped extent
                Undefined(buf, ins, e, TRUE)
          [] path = "copy" -> CopyOutcomes(f, e, buf, ins)

\* LoadFile(const std::string& filename, buffer, insert)
LoadFileName(fs, f, name, buf, ins) ==
    IF name \notin DOMAIN fs
    THEN {Outcome(arcFileNotFound, buf, ins, "none", NoEntry, FALSE, FALSE, FALSE)}
    ELSE LoadFileIndex(f, fs[name], buf, ins)

\* what subarc.hpp documents: the data is stored at the insertion position, the
\* buffer resized if necessary, and the cursor ends after the inserted data
DocLoad(w, data) ==
    [buf |-> IF Len(w.buf) - w.cur < Len(data)
             THEN SubSeq(w.buf, 1, w.cur) \o data
             ELSE CopyAt(w.buf, w.cur, data),
     cur |-> w.cur + Len(data)]

(***************************************************************************)
(* The section archive as a state machine                                  *)
(***************************************************************************)
Observed(op, byName, index, o) ==
    [op |-> op, byName |-> byName, index |-> index,
     preBuffer |-> buffer, preInsert |-> insert, preOpen |-> file.open,
     entry |-> o.entry, ret |-> o.ret, read |-> o.read, ub |-> o.ub, oob |-> o.oob]

NoOutcome == Outcome(0, <<>>, 0, "none", NoEntry, FALSE, FALSE, FALSE)

\* the bytes of the mapped file that entry e names
EntryData(f, e) == SubSeq(f.bytes, Low(e.offset) + 1, Low(e.offset) + Low(e.length))

InitBuffers == {CallerBytes(n) : n \in (0..SmallBuf) \cup {LargeBuf}}

\* the caller's cursor: anywhere in a small buffer, at either end of the large one
InitCursors(buf) == IF Len(buf) <= SmallBuf THEN 0..Len(buf) ELSE {0, Len(buf)}

\* the state after subarc's constructor, which calls Reopen()
InitArc ==
    /\ disk \in DiskImages
    /\ file = Reopened(disk)
    /\ seen = disk
    /\ files = FilesMap
    /\ buffer \in InitBuffers
    /\ insert \in InitCursors(buffer)
    /\ fault = "none"
    /\ last = Observed("new", FALSE, 0, NoOutcome)
    /\ want = [buf |-> buffer, cur |-> insert]
    /\ calls = 0

\* the section archive left alone, for the specifications of the other components
IdleArc ==
    /\ disk = MissingFile
    /\ file = ClosedFile
    /\ seen = MissingFile
    /\ files = FilesMap
    /\ buffer = <<>>
    /\ insert = 0
    /\ fault = "none"
    /\ last = Observed("new", FALSE, 0, NoOutcome)
    /\ want = [buf |-> <<>>, cur |-> 0]
    /\ calls = 0

\* the copy ran to its end
Copied(o) == o.fault = "none" /\ o.read

Applied(op, byName, index, o) ==
    /\ buffer' = o.buffer
    /\ insert' = o.insert
    /\ fault' = o.fault
    /\ last' = Observed(op, byName, index, o)
    /\ want' = IF Copied(o) THEN DocLoad(want, EntryData(file, o.entry)) ELSE want
    /\ calls' = calls + 1
    /\ UNCHANGED <<disk, file, files, seen, wide, mftVars, req, texVars>>

LoadByIndex ==
    /\ fault = "none"
    /\ calls < MaxCalls
    /\ \E index \in 0..MaxIndex :
         \E o \in LoadFileIndex(file, index, buffer, insert) :
            Applied("LoadFile", FALSE, index, o)

LoadByName ==
    /\ fault = "none"
    /\ calls < MaxCalls
    /\ \E name \in Names :
         \E o \in LoadFileName(files, file, name, buffer, insert) :
            Applied("LoadFile", TRUE, IF name \in DOMAIN files THEN files[name] ELSE 0, o)

\* Reopen() on a closed mapping (boost refuses to open a mapping that is open)
Reopen ==
    /\ fault = "none"
    /\ ~file.open
    /\ file' = Reopened(disk)
    /\ seen' = disk
    /\ last' = Observed("Reopen", FALSE, 0, NoOutcome)
    /\ UNCHANGED <<disk, files, buffer, insert, fault, want, calls, wide, mftVars, req, texVars>>

\* the two-argument overloads of LoadFile start from  auto back = end(buffer)
SeekEnd ==
    /\ fault = "none"
    /\ insert # Len(buffer)
    /\ insert' = Len(buffer)
    /\ want' = [buf |-> buffer, cur |-> Len(buffer)]
    /\ last' = Observed("SeekEnd", FALSE, 0, NoOutcome)
    /\ UNCHANGED <<disk, file, files, buffer, fault, calls, seen, wide, mftVars, req, texVars>>

\* the section file on disk is replaced while it is not mapped
DiskReplaced ==
    /\ fault = "none"
    /\ ~file.open
    /\ \E d \in DiskImages : d # disk /\ disk' = d
    /\ last' = Observed("Disk", FALSE, 0, NoOutcome)
    /\ UNCHANGED <<file, files, buffer, insert, fault, want, calls, seen, wide, mftVars, req, texVars>>

(***************************************************************************)
(* LoadFile by the sizes alone: a mapped section of any size_t size, an    *)
(* entry with any 32-bit offset and length.  The bytes are left out; the   *)
(* checks and the returned value are those of LoadPath and ReturnValue.    *)
(***************************************************************************)
\* mapped sizes: 64, 2^31 + 32, 2^32 - 1, 2^32 + 31
WideSizes == {Wide(64), <<32768, 32>>, <<65535, 65535>>, <<65536, 31>>}

\* offsets: 0, 32, 48, 0xFFFFFFF0
WideOffsets == {Wide(0), Wide(32), Wide(48), U32(65535, 65520)}

\* lengths: 0, 16, 32, 2^31 - 1, 2^31, 2^32 - 1
WideLengths == {Wide(0), Wide(16), Wide(32), U32(32767, 65535), U32(32768, 0), U32(65535, 65535)}

WideEntry(off, len) == [offset |-> off, fileID |-> U32(0, 0), length |-> len, length2 |-> len]

InitWide ==
    \E open \in BOOLEAN, size \in WideSizes, off \in WideOffsets, len \in WideLengths,
       space \in 0..SmallBuf :
        wide = [open |-> open, size |-> size, entry |-> WideEntry(off, len),
                space |-> space, path |-> "new", ret |-> 0]

IdleWide ==
    wide = [open |-> FALSE, size |-> Wide(0), entry |-> NoEntry,
            space |-> 0, path |-> "new", ret |-> 0]

\* LoadFile(0, buffer, insert) with  distance(insert, end(buffer)) = space
WideLoad ==
    /\ wide.path = "new"
    /\ LET path == LoadPath(wide.open, wide.size, 0, wide.entry, wide.space)
       IN  wide' = [wide EXCEPT !.path = path,
                                !.ret = CASE path = "notfound" -> arcFileNotFound
                                          [] path = "copy" -> ReturnValue(wide.entry)
                                          [] OTHER -> 0]
    /\ UNCHANGED <<arcVars, mftVars, req, texVars>>

(***************************************************************************)
(* mft: the gzip stream reader (mft.cpp)                                   *)
(* A stream is [bytes, mode]: the decompressed bytes that can be read, and *)
(* what follows them: "eof" (the stream ends), "gzerror" (the decompressor *)
(* fails there) or "failed" (the handle already holds an error: gzread     *)
(* returns -1 whatever is asked).                                          *)
(***************************************************************************)
Min(a, b) == IF a < b THEN a ELSE b

Zeros(n) == [i \in 1..n |-> 0]

\* gzread(gzHandle, destination, len): bytes read, or -1 for an error
GzRead(g, pos, len) ==
    LET avail == Min(len, Len(g.bytes) - pos)
    IN  IF g.mode = "failed" THEN -1
        ELSE IF avail = 0 /\ len > 0 /\ g.mode = "gzerror" THEN -1
        ELSE avail

\* a variant of the classification that tests res >= 0 first in the else chain
ClassifyPartialFirst(res, ilen) ==
    IF res = ilen THEN "SUCCESS"
    ELSE IF res >= 0 THEN "PARTIAL_READ"
    ELSE "GZ_ERROR"

\* the if/else chain of ReadData over res = gzread(...)
Classify(res, ilen) ==
    IF res = ilen THEN "SUCCESS"
    ELSE IF res > 0 THEN "PARTIAL_READ"
    ELSE IF res = 0 THEN "END_OF_FILE"
    ELSE "GZ_ERROR"

\* mft::ReadData(destination, len, e): bytes stored, count returned, result in e
ReadData(g, pos, len) ==
    LET res == GzRead(g, pos, len)
        n   == IF res < 0 THEN 0 ELSE res
    IN  [n |-> n, result |-> Classify(res, len), want |-> len,
         bytes |-> SubSeq(g.bytes, pos + 1, pos + n), pos |-> pos + n]

\* mft::ReadString(destination, len, e): destination.assign(buf, buf + res)
ReadString(g, pos, len) ==
    LET r   == ReadData(g, pos, len)
        buf == r.bytes \o Zeros(len - Len(r.bytes))     \* std::vector<char> buf(len)
    IN  [n |-> r.n, result |-> r.result, want |-> len,
         dest |-> SubSeq(buf, 1, r.n), pos |-> r.pos]

\* mft::ReadObject(obj, e), declared in mft.hpp: ReadData(&obj, sizeof(obj), e) into
\* an object whose bytes are zero before the read
ReadObject(g, pos, size) ==
    LET r == ReadData(g, pos, size)
    IN  [n |-> r.n, result |-> r.result, want |-> size,
         obj |-> r.bytes \o Zeros(size - Len(r.bytes)), pos |-> r.pos]

\* read_error::operator bool, declared in mft.hpp: true unless the result is SUCCESS
IsError(result) == result # "SUCCESS"

(***************************************************************************)
(* arc.arc layout.  types.hpp is not among the sources: the records are    *)
(* those of the format description, every integer field one byte wide      *)
(* except the 32-bit magic.                                                *)
(***************************************************************************)
MftHeaderSize == 4          \* {magic}
MftDataSize == 1            \* {numSections}
SectionHeaderSize == 2      \* {hsize, numFiles}
FileHeaderSize == 2         \* {fileSize, arcIndex}

\* std::string::find_last_not_of('\0') + 1: npos + 1 wraps to 0
LastNotNul(str) ==
    LET S == {i \in 1..Len(str) : str[i] # 0}
    IN  IF S = {} THEN 0 ELSE CHOOSE i \in S : \A j \in S : j <= i

\* a trim that removes the terminator only
TrimOneNul(str) == SubSeq(str, 1, Len(str) - 1)

\* sectionName.resize(sectionName.find_last_not_of('\0') + 1)
TrimSectionName(str) == SubSeq(str, 1, LastNotNul(str))

\* a trim that pops the terminator only
PopOneNul(str, back0) == [str |-> SubSeq(str, 1, Len(str) - 1), fault |-> "none"]

\* while(file.fname.back() == '\0') file.fname.pop_back();
\* back0 is what back() of an empty std::string yields, which is undefined:
\* "crash", "nul" (and pop_back() of the empty string follows) or "other"
RECURSIVE PopNuls(_, _)
PopNuls(str, back0) ==
    IF str = <<>>
    THEN [str |-> str, fault |-> CASE back0 = "crash" -> "crash"
                                   [] back0 = "nul" -> "ub"
                                   [] OTHER -> "none"]
    ELSE IF str[Len(str)] = 0 THEN PopNuls(SubSeq(str, 1, Len(str) - 1), back0)
    ELSE [str |-> str, fault |-> "none"]

\* std::string::back(): "nul" or "other"; of an empty string, back0
Back(str, back0) ==
    IF str = <<>> THEN back0 ELSE IF str[Len(str)] = 0 THEN "nul" ELSE "other"

\* section.fileList[file.fname] = file.header.arcIndex
MapAssign(fl, name, idx) ==
    [n \in (DOMAIN fl) \cup {name} |-> IF n = name THEN idx ELSE fl[n]]

EmptyMap == [n \in {} |-> 0]

ReadLog(what, r) == [what |-> what, want |-> r.want, n |-> r.n, result |-> r.result]

\* The for loop of ReadNextSection over k file entries still to read.
\* st = [pos, ..., fileList, log, inserted, diag, fault]
RECURSIVE ReadEntries(_, _, _, _)
ReadEntries(g, k, st, back0) ==
    IF k = 0 THEN st
    ELSE
    LET h    == ReadObject(g, st.pos, FileHeaderSize)      \* its result is not looked at
        len  == h.obj[1] - FileHeaderSize                   \* fileSize - sizeof(file.header)
        log1 == Append(st.log, ReadLog("file header", h))
    IN  IF len < 0
        THEN \* assert(len <= INT_MAX) on the wrapped length
             [st EXCEPT !.pos = h.pos, !.log = log1, !.fault = "assert"]
        ELSE
        LET s    == ReadString(g, h.pos, len)              \* its result is not looked at
            st2  == [st EXCEPT !.pos = s.pos, !.log = Append(log1, ReadLog("file name", s)),
                               !.fields = Append(st.fields, s.dest)]
            b    == Back(s.dest, back0)
        IN  IF b = "crash" THEN [st2 EXCEPT !.fault = "crash"]
            ELSE IF b = "other" THEN [st2 EXCEPT !.diag = "E00008"]
            ELSE
            LET t == PopNuls(s.dest, back0)
            IN  IF t.fault # "none" THEN [st2 EXCEPT !.fault = t.fault]
                ELSE ReadEntries(g, k - 1,
                        [st2 EXCEPT
                            !.fileList = MapAssign(st.fileList, t.str, h.obj[2]),
                            !.inserted = Append(st.inserted,
                                [name |-> t.str, index |-> h.obj[2],
                                 record |-> Len(st2.fields),
                                 from |-> {h.result, s.result}])],
                        back0)

\* mft::ReadNextSection(section) from position pos
ReadNextSection(g, pos, back0) ==
    LET h   == ReadObject(g, pos, SectionHeaderSize)
        st0 == [pos |-> h.pos, name |-> <<>>, field |-> <<>>, fields |-> <<>>,
                fileList |-> EmptyMap,
                log |-> <<ReadLog("section header", h)>>, inserted |-> <<>>,
                diag |-> "", fault |-> "none"]
    IN  IF IsError(h.result) THEN [st0 EXCEPT !.diag = "E00006"]
        ELSE
        LET len == h.obj[1] - SectionHeaderSize             \* hsize - sizeof(section.header)
        IN  IF len < 0
            THEN \* assert(len <= INT_MAX) on the wrapped length
                 [st0 EXCEPT !.fault = "assert"]
            ELSE
            LET s   == ReadString(g, h.pos, len)           \* its result is not looked at
                st1 == [st0 EXCEPT !.pos = s.pos, !.field = s.dest,
                                   !.log = Append(st0.log, ReadLog("section name", s))]
                b   == Back(s.dest, back0)
            IN  IF b = "crash" THEN [st1 EXCEPT !.fault = "crash"]
                ELSE IF b = "other" THEN [st1 EXCEPT !.diag = "E00007"]
                ELSE ReadEntries(g, h.obj[2],
                                 [st1 EXCEPT !.name = TrimSectionName(s.dest)], back0)

\* mft::mft(): open arc.arc, read and check the header, read the descriptor
Construct(g) ==
    LET h  == ReadObject(g, 0, MftHeaderSize)
        d  == ReadObject(g, h.pos, MftDataSize)
        c0 == [pos |-> 0, numSections |-> 0, log |-> <<>>, diag |-> ""]
    IN  IF g.mode = "missing" THEN [c0 EXCEPT !.diag = "E00001"]
        ELSE IF IsError(h.result)
        THEN [c0 EXCEPT !.diag = "E00002", !.log = <<ReadLog("header", h)>>]
        ELSE IF ReadU32(h.obj, 1) # MftMagic
        THEN [c0 EXCEPT !.diag = "E00003", !.log = <<ReadLog("header", h)>>]
        ELSE IF IsError(d.result)
        THEN [c0 EXCEPT !.diag = "E00004",
                        !.log = <<ReadLog("header", h), ReadLog("data", d)>>]
        ELSE [pos |-> d.pos, numSections |-> d.obj[1],
              log |-> <<ReadLog("header", h), ReadLog("data", d)>>, diag |-> ""]

(***************************************************************************)
(* Master index files                                                      *)
(***************************************************************************)
MaxPad == 2         \* a name is followed by up to MaxPad NUL bytes
MaxFiles == 2       \* a section lists up to MaxFiles files

\* "a", "b" and "p" as bytes
GoodFileSpecs == [name : {<<97>>, <<98>>}, pad : 1..MaxPad]
FlawedFileSpecs == [name : {<<97>>, <<98>>}, pad : {0}] \cup [name : {<<>>}, pad : 0..1]
GoodSectionNames == [name : {<<112>>}, pad : 1..MaxPad]
FlawedSectionNames == [name : {<<112>>}, pad : {0}] \cup [name : {<<>>}, pad : 0..1]

ListsOf(S) == UNION {[1..n -> S] : n \in 0..MaxFiles}

Section(nm, fs) == [name |-> nm.name, pad |-> nm.pad, files |-> fs]

\* sections whose names are all non-empty and NUL terminated
GoodSections == {Section(nm, fs) : nm \in GoodSectionNames, fs \in ListsOf(GoodFileSpecs)}

AllSections ==
    {Section(nm, fs) : nm \in GoodSectionNames \cup FlawedSectionNames,
                       fs \in ListsOf(GoodFileSpecs \cup FlawedFileSpecs)}

\* the k-th file entry of a section is written with local index k
FileBytes(f, k) == <<FileHeaderSize + Len(f.name) + f.pad, k>> \o f.name \o Zeros(f.pad)

SectionBytes(S) ==
    <<SectionHeaderSize + Len(S.name) + S.pad, Len(S.files)>> \o S.name \o Zeros(S.pad)
        \o Flatten([k \in 1..Len(S.files) |-> FileBytes(S.files[k], k)])

MftImage(magic, secs) ==
    Bytes32(magic) \o <<Len(secs)>> \o Flatten([i \in 1..Len(secs) |-> SectionBytes(secs[i])])

MftClosed == [phase |-> "closed", pos |-> 0, numSections |-> 0, diag |-> "", fault |-> "none",
              sections |-> <<>>]

NoSection == [pos |-> 0, name |-> <<>>, field |-> <<>>, fields |-> <<>>, fileList |-> EmptyMap,
              log |-> <<>>, inserted |-> <<>>, diag |-> "", fault |-> "none"]

\* arc.arc before the process starts: an intact index with one or two sections, an
\* index cut short (the stream ends, or the decompressor fails, after cut bytes), an
\* index with the magic of a section file, or no file
InitMft ==
    /\ \/ \E S \in AllSections, twice \in BOOLEAN :
            /\ arch = IF twice THEN <<S, S>> ELSE <<S>>
            /\ gz = [bytes |-> MftImage(MftMagic, arch), mode |-> "eof"]
       \/ \E S \in GoodSections, mode \in {"eof", "gzerror"} :
            /\ arch = <<S>>
            /\ \E cut \in 0..Len(MftImage(MftMagic, arch)) :
                 gz = [bytes |-> SubSeq(MftImage(MftMagic, arch), 1, cut), mode |-> mode]
       \/ \E S \in GoodSections :
            /\ arch = <<S>>
            /\ gz = [bytes |-> MftImage(SubarcMagic, arch), mode |-> "eof"]
       \/ /\ arch = <<>>
          /\ gz = [bytes |-> <<>>, mode |-> "missing"]
    /\ mft = MftClosed
    /\ sect = NoSection

IdleMft ==
    /\ arch = <<>>
    /\ gz = [bytes |-> <<>>, mode |-> "missing"]
    /\ mft = MftClosed
    /\ sect = NoSection

MftConstruct ==
    /\ mft.phase = "closed"
    /\ \E c \in {Construct(gz)} :
           mft' = [phase |-> IF c.diag = "" THEN "open" ELSE "dead",
                   pos |-> c.pos, numSections |-> c.numSections, diag |-> c.diag,
                   fault |-> "none", sections |-> <<>>]
           /\ sect' = [NoSection EXCEPT !.log = c.log]
    /\ UNCHANGED <<arch, gz, arcVars, wide, req, texVars>>

\* the loader reads the numSections sections one after the other
MftReadNextSection ==
    /\ mft.phase = "open"
    /\ Len(mft.sections) < mft.numSections
    /\ \E back0 \in {"crash", "nul", "other"} :
      \E r \in {ReadNextSection(gz, mft.pos, back0)} :
         LET ok == r.diag = "" /\ r.fault = "none"
         IN  /\ mft' = [mft EXCEPT !.phase = IF ok THEN "open" ELSE "dead",
                                   !.pos = r.pos, !.diag = r.diag, !.fault = r.fault,
                                   !.sections = IF ok
                                       THEN Append(@, [name |-> r.name, fileList |-> r.fileList])
                                       ELSE @]
             /\ sect' = r
    /\ UNCHANGED <<arch, gz, arcVars, wide, req, texVars>>

(***************************************************************************)
(* One call of ReadData or ReadString: len bytes are asked of a stream     *)
(* that has avail bytes left before it ends or fails                       *)
(***************************************************************************)
MaxAvail == 4
MaxLen == 4

StreamBytes(n) == [i \in 1..n |-> 64 + i]

InitRead ==
    \E pos \in 0..1, avail \in 0..MaxAvail, len \in 0..MaxLen, mode \in {"eof", "gzerror", "failed"} :
        req = [op |-> "new", g |-> [bytes |-> StreamBytes(pos + avail), mode |-> mode],
              pos |-> pos, len |-> len, res |-> 0, n |-> 0, result |-> "", dest |-> <<>>]

IdleRead ==
    req = [op |-> "new", g |-> [bytes |-> <<>>, mode |-> "eof"],
          pos |-> 0, len |-> 0, res |-> 0, n |-> 0, result |-> "", dest |-> <<>>]

ReadDataCall ==
    /\ req.op = "new"
    /\ \E r \in {ReadData(req.g, req.pos, req.len)} :
         req' = [req EXCEPT !.op = "ReadData", !.res = GzRead(req.g, req.pos, req.len),
                          !.n = r.n, !.result = r.result, !.dest = r.bytes]
    /\ UNCHANGED <<arcVars, wide, mftVars, texVars>>

ReadStringCall ==
    /\ req.op = "new"
    /\ \E r \in {ReadString(req.g, req.pos, req.len)} :
         req' = [req EXCEPT !.op = "ReadString", !.res = GzRead(req.g, req.pos, req.len),
                          !.n = r.n, !.result = r.result, !.dest = r.dest]
    /\ UNCHANGED <<arcVars, wide, mftVars, texVars>>

(***************************************************************************)
(* Texture headers (texture.hpp), packed, little-endian                    *)
(***************************************************************************)
PreheaderSize == 64          \* sizeof(sh3_texture_preheader)
TextureHeaderSize == 128     \* sizeof(sh3_texture_header)
PaletteInfoSize == 48        \* sizeof(palette_info)
PaletteChunk == 256          \* distance between the colour blocks of a palette
RgbaSize == 4                \* sizeof(rgba)

\* sh3_texture_preheader::magicNumber, 0xA7A7A7A7
PreMagic == U32(42919, 42919)

\* 0xFFFFFFFF, the header markers
Marker == U32(65535, 65535)

ReadU16(bytes, p) == bytes[p] + 256 * bytes[p + 1]

Bytes16(n) == <<n % 256, n \div 256>>

\* the fields of a sh3_texture_preheader lying at the start of raw
Preheader(raw) == [zero |-> ReadU32(raw, 1), magic |-> ReadU32(raw, 13)]

\* the fields of a sh3_texture_header lying at the start of raw
TextureHeader(raw) ==
    [batchHeaderSize |-> ReadU32(raw, 9),
     texWidth        |-> ReadU16(raw, 41),
     texHeight       |-> ReadU16(raw, 43),
     bpp             |-> raw[45],
     texSize         |-> ReadU32(raw, 49),
     texFileSize     |-> ReadU32(raw, 53)]

\* the fields of a palette_info lying at the start of raw
PaletteInfo(raw) ==
    [paletteSize |-> ReadU32(raw, 1), bytes_per_pixel |-> raw[13], entrySize |-> raw[15]]

PreheaderBytes(zero, magic) == Bytes32(zero) \o Zeros(8) \o Bytes32(magic) \o Zeros(48)

TextureHeaderBytes(h) ==
    Bytes32(Marker) \o Zeros(4) \o Bytes32(h.batchHeaderSize) \o Zeros(4) \o Zeros(4)
    \o Bytes32(U32(0, 1)) \o Zeros(8) \o Bytes32(Marker) \o Zeros(4)
    \o Bytes16(h.texWidth) \o Bytes16(h.texHeight) \o <<h.bpp, 0>> \o Zeros(2)
    \o Bytes32(h.texSize) \o Bytes32(h.texFileSize) \o Zeros(4) \o Zeros(4)
    \o Bytes32(U32(0, 1)) \o Zeros(60)

PaletteInfoBytes(p) ==
    Bytes32(p.paletteSize) \o Zeros(8) \o <<p.bytes_per_pixel, 0, p.entrySize>> \o Zeros(33)

(***************************************************************************)
(* Arithmetic of the header functions                                      *)
(***************************************************************************)
\* the exact product of two std::uint16_t values, as a wide value
Mul16(a, b) ==
    LET p1 == a * (b \div 256)
        p0 == a * (b % 256)
        lo == (p1 % 256) * 256 + p0
    IN  <<(p1 \div 256) + (lo \div Half), lo % Half>>

\* the exact product of a wide value and a small factor
WideMul(a, k) == <<a[1] * k + ((a[2] * k) \div Half), (a[2] * k) % Half>>

\* static_cast<std::uint32_t> of a wide value
ToU32(a) == <<a[1] % Half, a[2]>>

\* a value that does not fit an int (> INT_MAX)
IntOverflows(a) == a[1] >= Half \div 2

\* what a signed multiplication that overflows leaves behind: the wrapped bits, or
\* INT_MAX
OverflowOutcomes == {"wrap", "saturate"}

\* texWidth * texHeight * k in int arithmetic, then static_cast<std::uint32_t>
IntProduct(w, h, k, ub) ==
    LET wh    == Mul16(w, h)
        exact == WideMul(wh, k)
    IN  IF IntOverflows(wh) \/ IntOverflows(exact)
        THEN IF ub = "wrap" THEN ToU32(exact) ELSE U32(Half \div 2 - 1, Half - 1)
        ELSE exact

\* uint32 / 8u
U32Div8(v) == <<v[1] \div 8, ((v[1] % 8) * Half + v[2]) \div 8>>

\* uint32 - uint32 in uint32 arithmetic
U32Sub(a, b) ==
    LET lo == a[2] - b[2]
        hi == a[1] - b[1] - (IF lo < 0 THEN 1 ELSE 0)
    IN  <<(hi + Half) % Half, (lo + Half) % Half>>

(***************************************************************************)
(* The header functions (texture.hpp)                                      *)
(***************************************************************************)
\* sh3_texture_header::GetRealBPP()
GetRealBPP(h, ub) ==
    IF h.texSize = ToU32(WideMul(IntProduct(h.texWidth, h.texHeight, 1, ub), 4))
    THEN 32 ELSE h.bpp

\* sh3_texture_header::Check()
TextureCheck(h, ub) ==
    h.texSize = U32Div8(IntProduct(h.texWidth, h.texHeight, GetRealBPP(h, ub), ub))

\* sh3_texture_header::DataOffset(), a std::size_t
TextureDataOffset(h, ub) ==
    IF GetRealBPP(h, ub) = 8 THEN U32Sub(h.texFileSize, h.texSize) ELSE Wide(TextureHeaderSize)

\* sh3_texture_header::DataSize(maxSize)
TextureDataSize(h, maxSize) == h.texSize

\* sh3_texture_header::SubHeader<palette_info>()
TextureSubHeaderPalette(h) == U32Add(h.batchHeaderSize, h.texFileSize)

\* sh3_texture_preheader::Check()
PreheaderCheck(p) == p.zero = U32(0, 0) /\ p.magic = PreMagic

\* sh3_texture_preheader::SubHeader<sh3_texture_header>()
PreheaderSubHeaderTexture == Wide(PreheaderSize)

\* palette_info::GetBlockCount(), GetColorsPerBlock(); a zero divisor is undefined
PaletteDivides(p) == p.entrySize # 0 /\ p.bytes_per_pixel # 0

GetBlockCount(p) == (Low(p.paletteSize) \div p.entrySize) \div p.bytes_per_pixel

GetColorsPerBlock(p) == p.entrySize \div p.bytes_per_pixel

\* palette_info::DataOffset(idx), DataSize(maxSize, idx)
PaletteDataOffset(p, idx) == Wide(PaletteInfoSize + PaletteChunk * idx)

PaletteDataSize(p, maxSize, idx) == Wide(GetColorsPerBlock(p) * RgbaSize)

(***************************************************************************)
(* resource<header> (resource.hpp); a header type is "pre", "tex" or "pal" *)
(***************************************************************************)
SizeofResource == 24         \* sizeof(*this) inside resource: one std::vector

HeaderSize(kind) ==
    CASE kind = "pre" -> PreheaderSize
      [] kind = "tex" -> TextureHeaderSize
      [] OTHER        -> PaletteInfoSize

\* the condition of ASSERT(raw.size() >= size) in resource::AssertSize
AssertSize(raw, size) == WideGe(Wide(Len(raw)), size)

\* resource::IsLoaded(): raw.empty() && (AssertSize(sizeof(*this)), true)
IsLoaded(raw) ==
    IF raw = <<>>
    THEN IF AssertSize(raw, Wide(SizeofResource))
         THEN [ret |-> TRUE, fault |-> "none"]
         ELSE [ret |-> FALSE, fault |-> "assert"]
    ELSE [ret |-> FALSE, fault |-> "none"]

\* ASSERT(IsLoaded()): "none" when it passes
AssertLoaded(raw) ==
    LET l == IsLoaded(raw)
    IN  IF l.fault # "none" THEN l.fault ELSE IF l.ret THEN "none" ELSE "assert"

\* reinterpret_cast<const header&>(*cbegin(raw)): the header's fields
HeaderFields(raw, kind) ==
    CASE kind = "pre" -> Preheader(raw)
      [] kind = "tex" -> TextureHeader(raw)
      [] OTHER        -> PaletteInfo(raw)

\* resource::Header(): a buffer shorter than the header is read past its end
Header(raw, kind) ==
    IF AssertLoaded(raw) # "none" THEN [fault |-> AssertLoaded(raw)]
    ELSE IF Len(raw) < HeaderSize(kind) THEN [fault |-> "ub"]
    ELSE [fault |-> "none", h |-> HeaderFields(raw, kind)]

\* header::Check() of the header type
HeaderCheck(kind, h, ub) ==
    CASE kind = "pre" -> PreheaderCheck(h)
      [] kind = "tex" -> TextureCheck(h, ub)
      [] OTHER        -> TRUE

\* resource::Check(): IsLoaded() && Header().Check()
Check(raw, kind, ub) ==
    LET l == IsLoaded(raw)
    IN  IF l.fault # "none" THEN [ret |-> FALSE, fault |-> l.fault]
        ELSE IF ~l.ret THEN [ret |-> FALSE, fault |-> "none"]
        ELSE LET hd == Header(raw, kind)
             IN  IF hd.fault # "none" THEN [ret |-> FALSE, fault |-> hd.fault]
                 ELSE [ret |-> HeaderCheck(kind, hd.h, ub), fault |-> "none"]

\* the asset that no archive holds
NotInArchive == <<-1>>

\* mft::LoadFile(filename, raw, e), declared in mft.hpp: raw receives the file's
\* bytes, or is left alone when the name is not found
MftLoadFile(raw, asset) == IF asset = NotInArchive THEN raw ELSE asset

\* resource::LoadFromFile(mft, filename, e): [raw, fault, at]; at tells whether the
\* call stopped in its precondition ("pre") or after the bytes were retrieved ("post")
LoadFromFile(raw, kind, asset, ub) ==
    LET pre == IsLoaded(raw)
    IN  IF pre.fault # "none" THEN [raw |-> raw, fault |-> pre.fault, at |-> "pre"]
        ELSE IF pre.ret THEN [raw |-> raw, fault |-> "assert", at |-> "pre"]   \* ASSERT(!IsLoaded())
        ELSE
        LET got == MftLoadFile(raw, asset)
            l   == IsLoaded(got)
        IN  IF l.fault # "none" THEN [raw |-> got, fault |-> l.fault, at |-> "post"]
            ELSE IF ~l.ret THEN [raw |-> got, fault |-> "none", at |-> ""]
            ELSE LET hd == Header(got, kind)
                 IN  IF hd.fault # "none" THEN [raw |-> got, fault |-> hd.fault, at |-> "post"]
                     ELSE IF ~HeaderCheck(kind, hd.h, ub)
                          THEN [raw |-> <<>>, fault |-> "none", at |-> ""]    \* raw.clear()
                          ELSE [raw |-> got, fault |-> "none", at |-> ""]

\* resource::Convert<T>(std::size_t offset): {next(cbegin(raw), offset), cend(raw)}
Convert(raw, offset) ==
    IF ~AssertSize(raw, offset) THEN [raw |-> <<>>, fault |-> "assert"]
    ELSE [raw |-> SubSeq(raw, Low(offset) + 1, Len(raw)), fault |-> "none"]

\* header.SubHeader<T>(): the offset of the sub-header T
SubHeaderOffset(kind, h) ==
    IF kind = "pre" THEN PreheaderSubHeaderTexture ELSE TextureSubHeaderPalette(h)

\* resource::SubHeader<T>(): [raw of the new resource, fault]
SubHeader(raw, kind) ==
    IF AssertLoaded(raw) # "none" THEN [raw |-> <<>>, fault |-> AssertLoaded(raw)]
    ELSE LET hd == Header(raw, kind)
         IN  IF hd.fault # "none" THEN [raw |-> <<>>, fault |-> hd.fault]
             ELSE Convert(raw, SubHeaderOffset(kind, hd.h))

\* header.DataOffset(args), header.DataSize(left, args)
DataOffset(kind, h, idx, ub) ==
    CASE kind = "tex" -> TextureDataOffset(h, ub)
      [] kind = "pal" -> PaletteDataOffset(h, idx)
      [] OTHER        -> Wide(PreheaderSize + PreheaderSize)

DataSize(kind, h, left, idx) ==
    CASE kind = "tex" -> TextureDataSize(h, left)
      [] kind = "pal" -> PaletteDataSize(h, left, idx)
      [] OTHER        -> Wide(left)

NoView == [from |-> 0, to |-> 0, bytes |-> <<>>]

\* resource::RawData(args): the view [from, to) of raw, 0-based, and its bytes
RawData(raw, kind, idx, ub) ==
    IF AssertLoaded(raw) # "none" THEN [view |-> NoView, fault |-> AssertLoaded(raw)]
    ELSE
    LET hd == Header(raw, kind)
    IN  IF hd.fault # "none" THEN [view |-> NoView, fault |-> hd.fault]
        ELSE
        LET offset == DataOffset(kind, hd.h, idx, ub)
        IN  IF ~WideGe(Wide(Len(raw)), offset) THEN [view |-> NoView, fault |-> "assert"]
            ELSE
            LET left == Len(raw) - Low(offset)
                size == DataSize(kind, hd.h, left, idx)
            IN  IF ~WideGe(Wide(Len(raw)), WideAdd(offset, size))
                THEN [view |-> NoView, fault |-> "assert"]
                ELSE [view |-> [from |-> Low(offset), to |-> Low(offset) + Low(size),
                                bytes |-> SubSeq(raw, Low(offset) + 1,
                                                 Low(offset) + Low(size))],
                      fault |-> "none"]

(***************************************************************************)
(* Assets, and the calls made on one resource                              *)
(***************************************************************************)
TexFields(w, h, bpp, size) ==
    [batchHeaderSize |-> U32(0, 0), texWidth |-> w, texHeight |-> h, bpp |-> bpp,
     texSize |-> Wide(size), texFileSize |-> Wide(size + TextureHeaderSize)]

PixelBytes(n) == [i \in 1..n |-> 10 + i]

\* a palette of one block of 16 colours
SmallPalette ==
    PaletteInfoBytes([paletteSize |-> U32(0, 256), bytes_per_pixel |-> 4, entrySize |-> 64])
    \o [i \in 1..64 |-> 100 + i]

\* 2 x 2 RGBA texture: header, 16 bytes of pixels
RgbaAsset == TextureHeaderBytes(TexFields(2, 2, 32, 16)) \o PixelBytes(16)

\* the same with a declared size that fails Check()
BadSizeAsset == TextureHeaderBytes(TexFields(2, 2, 32, 15)) \o PixelBytes(16)

\* 4 x 2 paletted texture: header, 8 index bytes, palette
PalettedAsset == TextureHeaderBytes(TexFields(4, 2, 8, 8)) \o PixelBytes(8) \o SmallPalette

\* a texture behind a preheader
PreAsset == PreheaderBytes(U32(0, 0), PreMagic) \o RgbaAsset

\* a header whose declared data lies past the end of the asset
TruncatedAsset == TextureHeaderBytes(TexFields(2, 2, 32, 16)) \o PixelBytes(4)

\* bytes that are no complete header
ShortAsset == [i \in 1..30 |-> i]

TinyAsset == <<7>>

Assets == {RgbaAsset, BadSizeAsset, PalettedAsset, PreAsset, TruncatedAsset, ShortAsset,
           TinyAsset}

HeaderKinds == {"pre", "tex", "pal"}

NoCall == [op |-> "new", ret |-> FALSE, out |-> <<>>, view |-> NoView, fault |-> "none",
           at |-> "", idx |-> 0]

\* LoadFromFile may be called again while the process lives
MaxLoads == 2

\* a resource default-constructed or constructed from bytes, and the asset that its
\* file name refers to
InitRc ==
    \E kind \in HeaderKinds, raw \in Assets \cup {<<>>}, asset \in Assets \cup {NotInArchive} :
        rc = [kind |-> kind, raw |-> raw, asset |-> asset, before |-> raw, loads |-> 0,
              call |-> NoCall]

IdleRc == rc = [kind |-> "tex", raw |-> <<>>, asset |-> NotInArchive, before |-> <<>>,
                loads |-> 0, call |-> NoCall]

IsLoadedCall ==
    /\ rc.call.op = "new"
    /\ \E r \in {IsLoaded(rc.raw)} :
         rc' = [rc EXCEPT !.call = [NoCall EXCEPT !.op = "IsLoaded", !.ret = r.ret,
                                                  !.fault = r.fault]]
    /\ UNCHANGED <<arcVars, wide, mftVars, req, px, man>>

CheckCall ==
    /\ rc.call.op = "new"
    /\ \E ub \in OverflowOutcomes : \E r \in {Check(rc.raw, rc.kind, ub)} :
         rc' = [rc EXCEPT !.call = [NoCall EXCEPT !.op = "Check", !.ret = r.ret,
                                                  !.fault = r.fault]]
    /\ UNCHANGED <<arcVars, wide, mftVars, req, px, man>>

LoadFromFileCall ==
    /\ rc.call.op \in {"new", "LoadFromFile"}
    /\ rc.call.fault = "none"
    /\ rc.loads < MaxLoads
    /\ \E ub \in OverflowOutcomes : \E r \in {LoadFromFile(rc.raw, rc.kind, rc.asset, ub)} :
         rc' = [rc EXCEPT !.raw = r.raw, !.before = rc.raw, !.loads = rc.loads + 1,
                          !.call = [NoCall EXCEPT !.op = "LoadFromFile", !.fault = r.fault,
                                                  !.at = r.at]]
    /\ UNCHANGED <<arcVars, wide, mftVars, req, px, man>>

SubHeaderCall ==
    /\ rc.call.op = "new"
    /\ rc.kind \in {"pre", "tex"}
    /\ \E r \in {SubHeader(rc.raw, rc.kind)} :
         rc' = [rc EXCEPT !.call = [NoCall EXCEPT !.op = "SubHeader", !.out = r.raw,
                                                  !.fault = r.fault]]
    /\ UNCHANGED <<arcVars, wide, mftVars, req, px, man>>

RawDataCall ==
    /\ rc.call.op = "new"
    /\ \E idx \in 0..1, ub \in OverflowOutcomes : \E r \in {RawData(rc.raw, rc.kind, idx, ub)} :
         rc' = [rc EXCEPT !.call = [NoCall EXCEPT !.op = "RawData", !.view = r.view,
                                                  !.fault = r.fault, !.idx = idx]]
    /\ UNCHANGED <<arcVars, wide, mftVars, req, px, man>>

IdlePx == px = [op |-> "idle"]

(***************************************************************************)
(* palette_info_resource::Data(): the colour swap (texture.hpp)            *)
(***************************************************************************)
swapDistance == 32           \* distance between swaps
swapSize == 8                \* amount of colors to swap
SwapStart == 8               \* next(begin(palette), 8)

\* std::swap_ranges(iter, swapBlock, swapBlock), iter at position at (0-based)
SwapRanges(palette, at) ==
    [i \in 1..Len(palette) |->
        IF i > at /\ i <= at + swapSize THEN palette[i + swapSize]
        ELSE IF i > at + swapSize /\ i <= at + 2 * swapSize THEN palette[i - swapSize]
        ELSE palette[i]]

\* the condition of the for loop: distance(iter, end(palette)) > swapDistance
SwapContinues(palette, iter) == Len(palette) - iter > swapDistance

\* the for loop from iter on
RECURSIVE SwapFrom(_, _)
SwapFrom(palette, iter) ==
    IF ~SwapContinues(palette, iter) THEN palette
    ELSE IF Len(palette) - (iter + swapSize) < swapSize
         THEN palette                                   \* logs, break
         ELSE SwapFrom(SwapRanges(palette, iter), iter + swapDistance)

\* the swap of Data() on the materialized palette
SwapColors(palette) ==
    IF Len(palette) > SwapStart THEN SwapFrom(palette, SwapStart) ELSE palette

(***************************************************************************)
(* sh3_texture::Load: the paletted branch (texture.cpp)                    *)
(***************************************************************************)
DistortionWidth == 96        \* if(header.texWidth > 96)
WidthBlock == 16
HeightBlock == 4
TileBytes == 32              \* for(unsigned i = 0; i < 32; ++i)
TileStep == 16               \* x += 16

\* x ^ 8u and x ^ 4u on a small value
Xor8(x) == IF (x \div 8) % 2 = 1 THEN x - 8 ELSE x + 8

Xor4(x) == IF (x \div 4) % 2 = 1 THEN x - 4 ELSE x + 4

\* a variant of xoffset that ignores the flag
XOffsetNoFlip(i, offsetFlipper) ==
    LET base == ((i * 4) % 16) + ((i \div 4) % 16)
    IN  IF i > 16 /\ i % 2 = 1 THEN Xor8(base) % 16 ELSE base

\* xoffset for position i of a group
XOffset(i, offsetFlipper) ==
    LET base == ((i * 4) % 16) + ((i \div 4) % 16)
        bent == IF i > 16 /\ i % 2 = 1 THEN Xor8(base) % 16 ELSE base
    IN  IF offsetFlipper THEN Xor4(bent) ELSE bent

\* a variant of idx that keeps every position of a group in row y
TileIndexSameRow(w, x, y, i, offsetFlipper) == w * y + ((x + XOffset(i, offsetFlipper)) % w)

\* idx = (header.texWidth * tempy) + tempx % header.texWidth
TileIndex(w, x, y, i, offsetFlipper) ==
    w * (y + (IF i % 2 = 1 THEN 2 ELSE 0)) + ((x + XOffset(i, offsetFlipper)) % w)

\* a variant that does not clamp
KeepDimension(v, block) == v

\* header.texWidth - header.texWidth % 16u, header.texHeight - header.texHeight % 4u
ClampDimension(v, block) == v - (v % block)

\* the for loop over one group of 32 index bytes, from position i on;
\* st = [x, y, flip, it, iBuffer, hits, rows, fault]: it counts the bytes taken from
\* raw, hits the writes each cell of iBuffer received, rows the values of y the loop
\* body ran with
RECURSIVE Tile(_, _, _, _)
Tile(w, raw, i, st) ==
    IF i = TileBytes \/ st.fault # "none" THEN st
    ELSE IF st.it >= Len(raw) THEN [st EXCEPT !.fault = "ub"]          \* *(it++) past the end
    ELSE
    LET idx == TileIndex(w, st.x, st.y, i, st.flip)
    IN  IF idx > Len(st.iBuffer)
        THEN [st EXCEPT !.it = st.it + 1, !.fault = "assert"]           \* ASSERT(idx <= size)
        ELSE IF idx = Len(st.iBuffer)
        THEN [st EXCEPT !.it = st.it + 1, !.fault = "ub"]               \* iBuffer[size] = index
        ELSE Tile(w, raw, i + 1,
                  [st EXCEPT !.it = st.it + 1, !.iBuffer[idx + 1] = raw[st.it + 1],
                             !.hits[idx + 1] = @ + 1])

\* a variant of the row step that does not skip the rows read ahead
NextRowNoSkip(y) == y + 1

\* ++y; if(y % 2 == 0) y += 2
NextRow(y) == IF (y + 1) % 2 = 0 THEN y + 3 ELSE y + 1

\* the iterations of the while(true) loop that stay in one row (continue)
RECURSIVE Row(_, _, _)
Row(w, raw, st) ==
    LET t == Tile(w, raw, 0, st)
    IN  IF t.fault # "none" THEN t
        ELSE IF st.x + TileStep < w THEN Row(w, raw, [t EXCEPT !.x = st.x + TileStep])
        ELSE [t EXCEPT !.x = 0]

\* the while(true) loop from the state st on
RECURSIVE Dedistort(_, _, _, _)
Dedistort(w, h, raw, st) ==
    LET t == Row(w, raw, [st EXCEPT !.rows = Append(@, st.y)])
        y == NextRow(st.y)
    IN  IF t.fault # "none" THEN t
        ELSE IF (st.y + 1) % 2 = 0
        THEN IF y >= h THEN [t EXCEPT !.y = y]                          \* logs, break
             ELSE Dedistort(w, h, raw, [t EXCEPT !.y = y, !.flip = ~st.flip])
        ELSE IF y = h THEN [t EXCEPT !.y = y]                           \* break
             ELSE Dedistort(w, h, raw, [t EXCEPT !.y = y])

\* the first position of indices that stops the palette lookup, or 0
FirstOutside(indices, limit) ==
    LET bad == {i \in 1..Len(indices) : indices[i] >= limit}
    IN  IF bad = {} THEN 0 ELSE CHOOSE i \in bad : \A j \in bad : i <= j

\* data.push_back(pixel.r); data.push_back(pixel.g); data.push_back(pixel.b)
RgbOf(indices, palette) ==
    [k \in 1..(3 * Len(indices)) |-> palette[indices[((k - 1) \div 3) + 1] + 1][((k - 1) % 3) + 1]]

NoImage == [width |-> 0, height |-> 0, bpp |-> 0, data |-> <<>>, done |-> FALSE]

Image(w, h, bpp, data) == [width |-> w, height |-> h, bpp |-> bpp, data |-> data, done |-> TRUE]

\* lines 134-245 of sh3_texture::Load for a header of real bpp 8, the index bytes
\* raw = header_rc.RawData() and the palette
DecodePaletted(h, raw, palette) ==
    LET distort == h.texWidth > DistortionWidth
        warnW   == distort /\ h.texWidth % WidthBlock # 0
        warnH   == distort /\ h.texHeight % HeightBlock # 0
        w       == IF warnW THEN ClampDimension(h.texWidth, WidthBlock) ELSE h.texWidth
        ht      == IF warnH THEN ClampDimension(h.texHeight, HeightBlock) ELSE h.texHeight
        res     == [texWidth |-> w, texHeight |-> ht, warnW |-> warnW, warnH |-> warnH,
                    distort |-> distort, it |-> 0, iBuffer |-> <<>>, hits |-> <<>>,
                    rows |-> <<>>, y |-> 0, fault |-> "none",
                    at |-> "", dump |-> NoImage, upload |-> NoImage]
    IN  IF distort
        THEN LET d == Dedistort(w, ht, raw,
                        [x |-> 0, y |-> 0, flip |-> FALSE, it |-> 0,
                         iBuffer |-> Zeros(Low(h.texSize)), hits |-> Zeros(Low(h.texSize)),
                         rows |-> <<>>, fault |-> "none"])
                 r == [res EXCEPT !.it = d.it, !.iBuffer = d.iBuffer, !.hits = d.hits,
                                  !.rows = d.rows, !.y = d.y]
             IN  IF d.fault # "none" THEN [r EXCEPT !.fault = d.fault, !.at = "loop"]
                 ELSE IF d.it # Len(raw)                 \* ASSERT(it == end(RawData()))
                 THEN [r EXCEPT !.fault = "assert", !.at = "consumed"]
                 ELSE
                 LET stop == FirstOutside(d.iBuffer, Len(palette))
                 IN  IF stop # 0               \* ASSERT(index <= palette.size())
                     THEN [r EXCEPT !.fault = IF d.iBuffer[stop] = Len(palette)
                                              THEN "ub" ELSE "assert",
                                    !.at = "palette"]
                     ELSE LET data == RgbOf(d.iBuffer, palette)
                          IN  [r EXCEPT !.dump = Image(w, ht, 24, data),
                                        !.upload = Image(w, ht, h.bpp, data)]
        ELSE IF raw = <<>>
             THEN [res EXCEPT !.dump = Image(w, ht, 24, <<>>), !.upload = Image(w, ht, h.bpp, <<>>)]
             ELSE \* ASSERT(palette.size() <= index), then palette[index]
                  IF Len(palette) <= raw[1]
                  THEN [res EXCEPT !.fault = "ub", !.at = "palette"]
                  ELSE [res EXCEPT !.fault = "assert", !.at = "palette"]

(***************************************************************************)
(* sh3_texture::Load, from the file name to the upload (texture.cpp)       *)
(***************************************************************************)
\* the bytes of a block taken as rgba: strided(sizeof(rgba)), then the 4 bytes at
\* each stop
BlockColors(bytes) ==
    [c \in 1..((Len(bytes) + RgbaSize - 1) \div RgbaSize) |->
        [k \in 1..RgbaSize |->
            IF RgbaSize * (c - 1) + k <= Len(bytes) THEN bytes[RgbaSize * (c - 1) + k] ELSE 0]]

\* the for loop of palette_info_resource::Data() from block i on: [palette, fault]
RECURSIVE PaletteBlocks(_, _, _, _, _)
PaletteBlocks(raw, p, i, palette, ub) ==
    IF i >= GetBlockCount(p) THEN [palette |-> palette, fault |-> "none"]
    ELSE LET rd == RawData(raw, "pal", i, ub)
         IN  IF rd.fault # "none" THEN [palette |-> palette, fault |-> rd.fault]
             ELSE IF Len(BlockColors(rd.view.bytes)) # GetColorsPerBlock(p)
             THEN [palette |-> palette, fault |-> "assert"]
             ELSE PaletteBlocks(raw, p, i + 1, palette \o BlockColors(rd.view.bytes), ub)

\* palette_info_resource::Data(): [palette, fault]
PaletteData(raw, ub) ==
    LET hd == Header(raw, "pal")
    IN  IF hd.fault # "none" THEN [palette |-> <<>>, fault |-> hd.fault]
        ELSE IF ~PaletteDivides(hd.h) THEN [palette |-> <<>>, fault |-> "ub"]
        ELSE LET blocks == PaletteBlocks(raw, hd.h, 0, <<>>, ub)
             IN  IF blocks.fault # "none" THEN blocks
                 ELSE [palette |-> SwapColors(blocks.palette), fault |-> "none"]

MaxPaletteSize == 256        \* std::numeric_limits<std::uint8_t>::max() + 1

NoLoad ==
    [fault |-> "none", at |-> "", selected |-> "", preheader |-> <<>>, header |-> <<>>,
     checked |-> FALSE, dump |-> NoImage, upload |-> NoImage]

\* lines 94-119 of sh3_texture::Load(mft, filename), asset being what the archive
\* holds under filename: the selection of header_rc and its check
LoadHeader(asset, ub) ==
    LET pre == LoadFromFile(<<>>, "pre", asset, ub)
    IN  IF pre.fault # "none"
        THEN [NoLoad EXCEPT !.fault = pre.fault, !.at = "preheader.LoadFromFile",
                            !.preheader = pre.raw]
        ELSE
        LET chk == Check(pre.raw, "pre", ub)
            r1  == [NoLoad EXCEPT !.preheader = pre.raw]
        IN  IF chk.fault # "none" THEN [r1 EXCEPT !.fault = chk.fault, !.at = "preheader.Check"]
            ELSE
            LET got == IF chk.ret THEN SubHeader(pre.raw, "pre")
                       ELSE LoadFromFile(<<>>, "tex", asset, ub)
                r2  == [r1 EXCEPT !.selected = IF chk.ret THEN "sub" ELSE "file",
                                  !.header = got.raw]
            IN  IF got.fault # "none" THEN [r2 EXCEPT !.fault = got.fault, !.at = "header_rc"]
                ELSE
                LET hc == Check(got.raw, "tex", ub)
                IN  IF hc.fault # "none"
                    THEN [r2 EXCEPT !.fault = hc.fault, !.at = "header_rc.Check"]
                    ELSE IF ~hc.ret THEN [r2 EXCEPT !.fault = "die", !.at = "header_rc.Check"]
                    ELSE [r2 EXCEPT !.checked = TRUE]

\* what a call of Load that was not made leaves behind
Skipped == [fault |-> "skipped"]

\* lines 121-265 of sh3_texture::Load: the outcome, from the checked header_rc (res),
\* header = header_rc.Header() (hd), its real bpp, header_rc.SubHeader<palette_info>()
\* (sub), its Data() (pal), header_rc.RawData() (rd) and the paletted branch (d)
LoadResult(res, hd, real, sub, pal, rd, d) ==
    IF ~res.checked THEN res
    ELSE IF hd.fault # "none" THEN [res EXCEPT !.fault = hd.fault, !.at = "Header"]
    ELSE IF real = 8
    THEN IF sub.fault # "none" THEN [res EXCEPT !.fault = sub.fault, !.at = "SubHeader"]
         ELSE IF pal.fault # "none" THEN [res EXCEPT !.fault = pal.fault, !.at = "Data"]
         ELSE IF Len(pal.palette) > MaxPaletteSize
         THEN [res EXCEPT !.fault = "assert", !.at = "Data"]
         ELSE IF rd.fault # "none" THEN [res EXCEPT !.fault = rd.fault, !.at = "RawData"]
         ELSE [res EXCEPT !.fault = d.fault, !.at = d.at, !.dump = d.dump,
                          !.upload = d.upload]
    ELSE IF real \in {32, 24, 16}
    THEN IF rd.fault # "none" THEN [res EXCEPT !.fault = rd.fault, !.at = "RawData"]
         ELSE IF rd.view.bytes = <<>>                            \* &RawData().front()
         THEN [res EXCEPT !.dump = Image(hd.h.texWidth, hd.h.texHeight, real, <<>>),
                          !.fault = "ub", !.at = "UploadTexture"]
         ELSE [res EXCEPT !.dump = Image(hd.h.texWidth, hd.h.texHeight, real, rd.view.bytes),
                          !.upload = Image(hd.h.texWidth, hd.h.texHeight, real,
                                           rd.view.bytes)]
    ELSE [res EXCEPT !.fault = "die", !.at = "format"]

(***************************************************************************)
(* Header functions and decoder blocks applied to drawn inputs             *)
(***************************************************************************)
MaxColors == 80              \* palettes of 0..MaxColors colours
MaxPatterns == 2             \* index streams per texture

Dimensions == {0, 1, 2, 3, 112, 130, 16384, 32768, 65535}

DeclaredBpps == {8, 16, 24, 32}

\* declared sizes: what each bpp would give for w x h in 32 bits, and two others
DeclaredSizes(w, h) ==
    {U32Div8(ToU32(WideMul(Mul16(w, h), k))) : k \in DeclaredBpps} \cup {U32(0, 0), U32(0, 1)}

TexWidths == {4, 96, 112, 128, 130, 132}

TexHeights == {2, 3, 4, 5, 8}

\* width and height of the paletted textures
TexShapes == (TexWidths \X TexHeights) \cup {<<128, 64>>, <<130, 65>>}

PaletteSizes == {16, 256}

\* a palette of n distinguishable colours
Colors(n) == [i \in 1..n |-> <<i % 256, (2 * i) % 256, (3 * i) % 256, 128>>]

\* n index bytes below limit
IndexStream(n, pattern, limit) == [i \in 1..n |-> (i * (2 * pattern + 1)) % limit]

\* widths, tile bases and rows of single groups
TileWidths == {112, 128}

TileRows == {0, 1, 4, 5}

NoOut == [fault |-> "none"]

InitPx ==
    \/ \E w \in Dimensions, h \in Dimensions, bpp \in DeclaredBpps :
         \E size \in DeclaredSizes(w, h) :
            px = [op |-> "new", kind |-> "header",
                  h |-> [batchHeaderSize |-> U32(0, 0), texWidth |-> w, texHeight |-> h,
                         bpp |-> bpp, texSize |-> size,
                         texFileSize |-> U32Add(size, Wide(TextureHeaderSize))],
                  ub |-> "wrap", out |-> NoOut]
    \/ \E n \in 0..MaxColors :
            px = [op |-> "new", kind |-> "palette", palette |-> Colors(n), out |-> NoOut]
    \/ \E shape \in TexShapes, pattern \in 1..MaxPatterns,
          limit \in PaletteSizes, colors \in PaletteSizes :
            px = [op |-> "new", kind |-> "texture",
                  h |-> TexFields(shape[1], shape[2], 8, shape[1] * shape[2]),
                  raw |-> IndexStream(shape[1] * shape[2], pattern, limit),
                  palette |-> Colors(colors), out |-> NoOut]
    \/ \E asset \in Assets \cup {NotInArchive} :
            px = [op |-> "new", kind |-> "asset", asset |-> asset, out |-> NoOut]
    \/ \E w \in TileWidths, y \in TileRows, offsetFlipper \in BOOLEAN :
         \E x \in {TileStep * t : t \in 0..((w \div TileStep) - 1)} :
            px = [op |-> "new", kind |-> "tile", w |-> w, x |-> x, y |-> y,
                  flip |-> offsetFlipper, out |-> NoOut]

\* GetRealBPP(), Check() and DataOffset() of a sh3_texture_header
TextureHeaderCall ==
    /\ px.op = "new" /\ px.kind = "header"
    /\ \E ub \in OverflowOutcomes :
         px' = [px EXCEPT !.op = "header", !.ub = ub,
                          !.out = [fault |-> "none",
                                   real |-> GetRealBPP(px.h, ub),
                                   check |-> TextureCheck(px.h, ub),
                                   offset |-> TextureDataOffset(px.h, ub)]]
    /\ UNCHANGED <<arcVars, wide, mftVars, req, rc, man>>

\* the swap of palette_info_resource::Data()
SwapColorsCall ==
    /\ px.op = "new" /\ px.kind = "palette"
    /\ \E r \in {SwapColors(px.palette)} :
         px' = [px EXCEPT !.op = "swap", !.out = [fault |-> "none", palette |-> r]]
    /\ UNCHANGED <<arcVars, wide, mftVars, req, rc, man>>

\* sh3_texture::Load(mft, filename): each call it makes, in the order of the code
LoadCall ==
    /\ px.op = "new" /\ px.kind = "asset"
    /\ \E ub \in OverflowOutcomes :
       \E res \in {LoadHeader(px.asset, ub)} :
       \E hd \in {IF res.checked THEN Header(res.header, "tex") ELSE Skipped} :
       \E real \in {IF hd.fault = "none" THEN GetRealBPP(hd.h, ub) ELSE 0} :
       \E sub \in {IF real = 8 THEN SubHeader(res.header, "tex") ELSE Skipped} :
       \E pal \in {IF sub.fault = "none" THEN PaletteData(sub.raw, ub) ELSE Skipped} :
       \E rd \in {IF hd.fault = "none" /\ (real = 8 => pal.fault = "none")
                  THEN RawData(res.header, "tex", 0, ub) ELSE Skipped} :
       \E d \in {IF real = 8 /\ rd.fault = "none" /\ Len(pal.palette) <= MaxPaletteSize
                 THEN DecodePaletted(hd.h, rd.view.bytes, pal.palette) ELSE Skipped} :
            px' = [px EXCEPT !.op = "Load",
                             !.out = LoadResult(res, hd, real, sub, pal, rd, d)]
    /\ UNCHANGED <<arcVars, wide, mftVars, req, rc, man>>

\* idx of every position i of one group of 32 index bytes
TileIndexCall ==
    /\ px.op = "new" /\ px.kind = "tile"
    /\ px' = [px EXCEPT !.op = "tile",
                        !.out = [fault |-> "none",
                                 idx |-> [k \in 1..TileBytes |->
                                            TileIndex(px.w, px.x, px.y, k - 1, px.flip)]]]
    /\ UNCHANGED <<arcVars, wide, mftVars, req, rc, man>>

\* the paletted branch of sh3_texture::Load
DecodePalettedCall ==
    /\ px.op = "new" /\ px.kind = "texture"
    /\ \E r \in {DecodePaletted(px.h, px.raw, px.palette)} :
         px' = [px EXCEPT !.op = "decode", !.out = r]
    /\ UNCHANGED <<arcVars, wide, mftVars, req, rc, man>>

(***************************************************************************)
(* resource_manager<resource> (second half of texture.cpp)                 *)
(***************************************************************************)
MaxRefs == 3                 \* live resource_ref objects at a time
MaxSteps == 5                \* calls made on one manager

Paths == {"a", "b"}

\* a std::size_t reference count is kept modulo 2^64 by a small representative:
\* -1 stands for SIZE_MAX.  ++ and -- on the representative are exact.
CountIsZero(count) == count = 0

CountIsOne(count) == count = 1

CountAboveOne(count) == count \notin {0, 1}

\* resource_block{}: referenceCount = 0
NewBlock == [loaded |-> FALSE, referenceCount |-> 0]

\* every member function of a resource_ref goes through rcIt, a reference to the
\* constructor's by-value parameter: it either still finds the iterator or not
DanglingOutcomes == {"intact", "garbage"}

\* the iterator is usable: the reference still finds it and its entry was not erased
RcItUsable(m, path, dangling) == dangling = "intact" /\ path \in DOMAIN m.loadedResources

\* the map without the entry of path
Erase(map, path) == [q \in (DOMAIN map) \ {path} |-> map[q]]

\* resource_manager::UnloadResource(it): declared, not defined in the repository
UnloadResource(map, path) == Erase(map, path)

\* assert(cond): aborts unless the build defines NDEBUG
AssertFails(m, cond) == ~m.ndebug /\ ~cond

InitMan ==
    \E ndebug \in BOOLEAN :
        man = [ndebug |-> ndebug,
               loadedResources |-> <<>>,
               live |-> [p \in Paths |-> 0],
               unloads |-> [p \in Paths |-> 0],
               steps |-> 0, op |-> "new", path |-> "", inserted |-> FALSE,
               unloaded |-> FALSE, fault |-> "none"]

IdleMan == man = [op |-> "idle"]

ManReady ==
    /\ man.op # "idle" /\ man.fault = "none" /\ man.steps < MaxSteps

\* the live resource_ref objects of all paths
LiveRefs(m) == m.live["a"] + m.live["b"]

\* resource_manager::LoadResource(path)
LoadResource ==
    \E path \in Paths :
    /\ ManReady /\ LiveRefs(man) < MaxRefs
    /\ LET inserted == path \notin DOMAIN man.loadedResources
           map      == IF inserted
                       THEN [q \in (DOMAIN man.loadedResources) \cup {path} |->
                               IF q = path THEN [NewBlock EXCEPT !.loaded = TRUE]
                               ELSE man.loadedResources[q]]
                       ELSE man.loadedResources
           count    == map[path].referenceCount
           holds    == IF inserted THEN CountIsOne(count) ELSE CountAboveOne(count)
           m        == [man EXCEPT !.loadedResources = map, !.steps = @ + 1,
                                   !.op = "LoadResource", !.path = path,
                                   !.inserted = inserted, !.unloaded = FALSE]
       IN  man' = IF AssertFails(man, holds)
                  THEN [m EXCEPT !.fault = "assert"]
                  ELSE [m EXCEPT !.live[path] = @ + 1]
    /\ UNCHANGED <<arcVars, wide, mftVars, req, rc, px>>

\* resource_ref::resource_ref(const resource_ref &other), other a live reference to path
CopyRef ==
    \E path \in Paths :
    /\ ManReady /\ man.live[path] > 0 /\ LiveRefs(man) < MaxRefs
    /\ \E dangling \in DanglingOutcomes :
         LET m == [man EXCEPT !.steps = @ + 1, !.op = "copy", !.path = path,
                              !.inserted = FALSE, !.unloaded = FALSE]
         IN  man' = IF ~RcItUsable(man, path, dangling) THEN [m EXCEPT !.fault = "ub"]
                    ELSE IF AssertFails(man, ~CountIsZero(man.loadedResources[path].referenceCount))
                    THEN [m EXCEPT !.fault = "assert"]
                    ELSE [m EXCEPT !.loadedResources[path].referenceCount = @ + 1,
                                   !.live[path] = @ + 1]
    /\ UNCHANGED <<arcVars, wide, mftVars, req, rc, px>>

\* resource_ref::~resource_ref() of a live reference to path
DestroyRef ==
    \E path \in Paths :
    /\ ManReady /\ man.live[path] > 0
    /\ \E dangling \in DanglingOutcomes :
         LET m     == [man EXCEPT !.steps = @ + 1, !.op = "destroy", !.path = path,
                                  !.inserted = FALSE, !.unloaded = FALSE,
                                  !.live[path] = @ - 1]
         IN  man' = IF ~RcItUsable(man, path, dangling) THEN [m EXCEPT !.fault = "ub"]
                    ELSE IF AssertFails(man, ~CountIsZero(man.loadedResources[path].referenceCount))
                    THEN [m EXCEPT !.fault = "assert"]
                    ELSE LET count == man.loadedResources[path].referenceCount - 1
                         IN  IF CountIsZero(count)
                             THEN [m EXCEPT !.loadedResources =
                                               UnloadResource(man.loadedResources, path),
                                            !.unloads[path] = @ + 1,
                                            !.unloaded = TRUE]
                             ELSE [m EXCEPT !.loadedResources[path].referenceCount = count]
    /\ UNCHANGED <<arcVars, wide, mftVars, req, rc, px>>

(***************************************************************************)
(* Specifications: the section archive; LoadFile by sizes; the master      *)
(* index; one read of the stream; one resource; the pixel functions; the    *)
(* resource manager                                                        *)
(***************************************************************************)
Init == InitArc /\ IdleWide /\ IdleMft /\ IdleRead /\ IdleRc /\ IdlePx /\ IdleMan

Next == LoadByIndex \/ LoadByName \/ Reopen \/ SeekEnd \/ DiskReplaced

Spec == Init /\ [][Next]_vars

WideInit == IdleArc /\ InitWide /\ IdleMft /\ IdleRead /\ IdleRc /\ IdlePx /\ IdleMan

WideNext == WideLoad

SpecWide == WideInit /\ [][WideNext]_vars

MftInit == IdleArc /\ IdleWide /\ InitMft /\ IdleRead /\ IdleRc /\ IdlePx /\ IdleMan

MftNext == MftConstruct \/ MftReadNextSection

SpecMft == MftInit /\ [][MftNext]_vars

ReadInit == IdleArc /\ IdleWide /\ IdleMft /\ InitRead /\ IdleRc /\ IdlePx /\ IdleMan

ReadNext == ReadDataCall \/ ReadStringCall

SpecRead == ReadInit /\ [][ReadNext]_vars

RcInit == IdleArc /\ IdleWide /\ IdleMft /\ IdleRead /\ InitRc /\ IdlePx /\ IdleMan

RcNext == IsLoadedCall \/ CheckCall \/ LoadFromFileCall \/ SubHeaderCall \/ RawDataCall

SpecRc == RcInit /\ [][RcNext]_vars

PxInit == IdleArc /\ IdleWide /\ IdleMft /\ IdleRead /\ IdleRc /\ InitPx /\ IdleMan

PxNext == TextureHeaderCall \/ SwapColorsCall \/ LoadCall \/ TileIndexCall \/ DecodePalettedCall

SpecPx == PxInit /\ [][PxNext]_vars

ManInit == IdleArc /\ IdleWide /\ IdleMft /\ IdleRead /\ IdleRc /\ IdlePx /\ InitMan

ManNext == LoadResource \/ CopyRef \/ DestroyRef

SpecMan == ManInit /\ [][ManNext]_vars

(***************************************************************************)
(* Claims about subarc::LoadFile and subarc::Reopen                        *)
(***************************************************************************)
\* the last step was a LoadFile that ran to its end, with no undefined behaviour
Succeeded == last.op = "LoadFile" /\ fault = "none" /\ last.read /\ ~last.ub

LastLen == Low(last.entry.length)
LastSpace == Len(last.preBuffer) - last.preInsert

\* C1: when the space from the insertion point to the end of the buffer is smaller
\* than the entry length, the buffer grows by exactly the shortfall, the bytes before
\* the insertion point are preserved, and [insertPos, insertPos + length) holds the
\* bytes of the entry.
C1_GrowsByShortfall ==
    (Succeeded /\ LastSpace < LastLen) =>
        /\ Len(buffer) = Len(last.preBuffer) + LastLen - LastSpace
        /\ SubSeq(buffer, 1, last.preInsert) = SubSeq(last.preBuffer, 1, last.preInsert)
        /\ SubSeq(buffer, last.preInsert + 1, last.preInsert + LastLen)
              = EntryData(file, last.entry)

\* C2: after a successful load the cursor is at insertion position + entry length,
\* and the buffer holds the loaded files in call order, as documented.
C2_CursorAfterData ==
    Succeeded =>
        /\ insert = last.preInsert + LastLen
        /\ insert = want.cur
        /\ buffer = want.buf

\* C3: an entry whose true offset + length exceeds the mapped size fails the
\* assertion, and nothing outside the mapped extent is read.
C3_BeyondExtentAsserts ==
    (last.op = "LoadFile" /\ last.read /\ ~RangeMapped(Wide(Len(file.bytes)), last.entry)) =>
        (fault = "assert" /\ ~last.oob)

\* Reopen() failed on these bytes: no file, or the first 4 bytes are not the magic
ReopenFails(d) == d = MissingFile \/ ReadU32(d, 1) # SubarcMagic

\* C4: after a failed Reopen every LoadFile, by name or by index, returns
\* arcFileNotFound, reads no mapped memory and leaves buffer and cursor unchanged.
C4_FailedReopenNotFound ==
    (last.op = "LoadFile" /\ ReopenFails(seen)) =>
        /\ last.ret = arcFileNotFound
        /\ ~last.read
        /\ fault = "none"
        /\ buffer = last.preBuffer
        /\ insert = last.preInsert

C4_Witness ==
    /\ last.op = "LoadFile"
    /\ seen = BadMagicImage
    /\ last.byName
    /\ last.preBuffer # <<>>
    /\ last.ret = arcFileNotFound

\* C5: a successful load returns the entry length as a non-negative value, never
\* arcFileNotFound, for every 32-bit entry length.
C5_SentinelDistinct ==
    wide.path = "copy" =>
        (wide.ret >= 0 /\ wide.ret # arcFileNotFound)

(***************************************************************************)
(* Claims about mft::ReadNextSection, the constructor and the reads        *)
(***************************************************************************)
\* arc.arc holds exactly the bytes written for arch
Intact == arch # <<>> /\ gz = [bytes |-> MftImage(MftMagic, arch), mode |-> "eof"]

\* every name written is non-empty and followed by at least one NUL
WellFormed == \A i \in 1..Len(arch) : arch[i] \in GoodSections

NamesOf(S) == {S.files[k].name : k \in 1..Len(S.files)}

EntriesNamed(S, nm) == {k \in 1..Len(S.files) : S.files[k].name = nm}

FirstNamed(S, nm) == CHOOSE k \in EntriesNamed(S, nm) : \A j \in EntriesNamed(S, nm) : k <= j

\* C6: when a section lists the same filename in two entries, the map holds the
\* local index of the first entry read.
C6_FirstDuplicateWins ==
    (Intact /\ WellFormed) =>
        \A i \in 1..Len(mft.sections) :
            \A nm \in NamesOf(arch[i]) :
                /\ nm \in DOMAIN mft.sections[i].fileList
                /\ mft.sections[i].fileList[nm] = FirstNamed(arch[i], nm)

\* C7: names written as a non-empty name followed by one or more NULs are stored
\* with all trailing NULs removed and nothing else dropped, and the map returns for
\* every name written once the local index written for it; such an index loads.
C7_RoundTrip ==
    (Intact /\ WellFormed) =>
        /\ mft.diag = "" /\ mft.fault = "none"
        /\ \A i \in 1..Len(mft.sections) :
              /\ mft.sections[i].name = arch[i].name
              /\ DOMAIN mft.sections[i].fileList = NamesOf(arch[i])
              /\ \A nm \in NamesOf(arch[i]) :
                    Cardinality(EntriesNamed(arch[i], nm)) = 1 =>
                        mft.sections[i].fileList[nm] = FirstNamed(arch[i], nm)

C7_Witness ==
    /\ Intact /\ WellFormed
    /\ Len(mft.sections) = 2
    /\ arch[2].pad = 2
    /\ Len(arch[2].files) = 2
    /\ arch[2].files[1].pad = 2
    /\ arch[2].files[1].name # arch[2].files[2].name
    /\ mft.sections[2].fileList[arch[2].files[2].name] = 2

EndsInNul(field) == field # <<>> /\ field[Len(field)] = 0

\* the last ReadNextSection read the name field of the section
SectionNameRead == Len(sect.log) >= 2 /\ sect.log[2].what = "section name"

\* C8: a name field that does not end in NUL makes the load fatal, E00007 for a
\* section name and E00008 for a file name, and no entry is inserted for the record.
C8_MissingNulFatal ==
    /\ (SectionNameRead /\ ~EndsInNul(sect.field)) =>
            (mft.diag = "E00007" /\ sect.inserted = <<>>)
    /\ \A r \in 1..Len(sect.fields) :
            ~EndsInNul(sect.fields[r]) =>
                /\ mft.diag = "E00008"
                /\ \A j \in 1..Len(sect.inserted) : sect.inserted[j].record # r

\* C9: a read that does not report SUCCESS, or a wrong magic, ends the load in a
\* numbered diagnostic; the section is not loaded and nothing is inserted from the
\* data of such a read.
C9_FailedReadIsFatal ==
    /\ (\E i \in 1..Len(sect.log) : sect.log[i].result # "SUCCESS") =>
            (mft.phase = "dead" /\ mft.diag # "")
    /\ \A j \in 1..Len(sect.inserted) : sect.inserted[j].from = {"SUCCESS"}
    /\ (mft.phase # "closed" /\ gz.mode # "missing" /\ Len(gz.bytes) >= MftHeaderSize
            /\ ReadU32(gz.bytes, 1) # MftMagic) => mft.diag = "E00003"

\* what the stream had for the call
Exhausted == req.pos >= Len(req.g.bytes) /\ req.g.mode = "eof"
GzFailed == req.res < 0

\* C10 as amended: Success exactly when n = len and gzread reports no error,
\* PartialRead exactly when 0 < n < len, EndOfFile exactly when n = 0 < len on an
\* exhausted stream, DecompressionError exactly when gzread reports an error
\* (count 0); Success is never reported for fewer than len bytes, and the
\* destination holds exactly the n bytes read.
C10_Classification ==
    req.op # "new" =>
        /\ (req.result = "SUCCESS") <=> (req.n = req.len /\ ~GzFailed)
        /\ (req.result = "PARTIAL_READ") <=> (0 < req.n /\ req.n < req.len)
        /\ (req.result = "END_OF_FILE") <=> (req.n = 0 /\ req.len > 0 /\ Exhausted)
        /\ (req.result = "GZ_ERROR") <=> GzFailed
        /\ GzFailed => req.n = 0
        /\ req.n < req.len => req.result # "SUCCESS"
        /\ req.dest = SubSeq(req.g.bytes, req.pos + 1, req.pos + req.n)

C10_Witness ==
    /\ req.op = "ReadString"
    /\ req.result = "PARTIAL_READ"
    /\ req.len = 3
    /\ req.dest = <<66, 67>>

\* C10 as stated: EndOfFile exactly when n = 0 with the stream exhausted
C10_AsStated ==
    req.op # "new" =>
        /\ (req.result = "SUCCESS") <=> (req.n = req.len)
        /\ (req.result = "PARTIAL_READ") <=> (0 < req.n /\ req.n < req.len)
        /\ (req.result = "END_OF_FILE") <=> (req.n = 0 /\ Exhausted)
        /\ GzFailed => (req.result = "GZ_ERROR" /\ req.n = 0)
        /\ req.n < req.len => req.result # "SUCCESS"
        /\ req.dest = SubSeq(req.g.bytes, req.pos + 1, req.pos + req.n)

(***************************************************************************)
(* Claims about resource<header>                                           *)
(***************************************************************************)
\* what resource.hpp documents as loaded: a buffer that is not empty and can hold
\* the header
CanHoldHeader(raw, kind) == raw # <<>> /\ Len(raw) >= HeaderSize(kind)

\* C11: IsLoaded() returns true exactly when the buffer is non-empty and at least as
\* large as the header type, and returns false without aborting for an empty buffer.
C11_IsLoadedIffBuffered ==
    rc.call.op = "IsLoaded" =>
        /\ rc.call.ret <=> CanHoldHeader(rc.raw, rc.kind)
        /\ rc.raw = <<>> => rc.call.fault = "none"

\* the asset holds a complete header of the resource's type
AssetComplete == rc.asset # NotInArchive /\ Len(rc.asset) >= HeaderSize(rc.kind)

AssetPasses == HeaderCheck(rc.kind, HeaderFields(rc.asset, rc.kind), "wrap")

\* C12: LoadFromFile on an unloaded resource throws nothing; bytes that fail Check()
\* leave the buffer empty, bytes that pass are the buffer afterwards, and a file that
\* is not found leaves the resource unloaded.
C12_LoadFromFileOutcome ==
    (rc.call.op = "LoadFromFile" /\ rc.before = <<>>
        /\ (AssetComplete \/ rc.asset = NotInArchive)) =>
        /\ rc.call.fault = "none"
        /\ rc.asset = NotInArchive => rc.raw = <<>>
        /\ (AssetComplete /\ ~AssetPasses) => rc.raw = <<>>
        /\ (AssetComplete /\ AssetPasses) => rc.raw = rc.asset

\* C13: the precondition of LoadFromFile fails exactly when the resource already
\* holds a loaded buffer, never for an empty one.
C13_PreconditionIffLoaded ==
    (rc.call.op = "LoadFromFile" /\ (rc.before = <<>> \/ CanHoldHeader(rc.before, rc.kind))) =>
        ((rc.call.fault # "none" /\ rc.call.at = "pre") <=> CanHoldHeader(rc.before, rc.kind))

\* C14: SubHeader<T>() on a loaded resource returns an independent copy of the bytes
\* from the header-defined offset to the end, leaves the parent unchanged, and
\* rejects by assertion an offset beyond the parent's size.
C14_SubHeaderCopiesTail ==
    (rc.call.op = "SubHeader" /\ CanHoldHeader(rc.raw, rc.kind)) =>
        LET off == SubHeaderOffset(rc.kind, HeaderFields(rc.raw, rc.kind))
        IN  /\ rc.raw = rc.before
            /\ IF WideGe(Wide(Len(rc.raw)), off)
               THEN /\ rc.call.fault = "none"
                    /\ rc.call.out = SubSeq(rc.raw, Low(off) + 1, Len(rc.raw))
                    /\ Len(rc.call.out) = Len(rc.raw) - Low(off)
               ELSE rc.call.fault = "assert"

\* C15: RawData(args) on a loaded resource returns exactly the bytes
\* [DataOffset, DataOffset + DataSize), or an assertion fails when that range does
\* not lie inside the buffer; no view extends past the end of the buffer.
C15_RawDataInsideBuffer ==
    (/\ rc.call.op = "RawData" /\ CanHoldHeader(rc.raw, rc.kind)
     /\ rc.kind = "pal" => PaletteDivides(HeaderFields(rc.raw, rc.kind))) =>
        LET h    == HeaderFields(rc.raw, rc.kind)
            off  == DataOffset(rc.kind, h, rc.call.idx, "wrap")
            size == DataSize(rc.kind, h, Len(rc.raw) - Low(off), rc.call.idx)
        IN  IF WideGe(Wide(Len(rc.raw)), WideAdd(off, size))
            THEN /\ rc.call.fault = "none"
                 /\ rc.call.view.from = Low(off)
                 /\ rc.call.view.to = Low(off) + Low(size)
                 /\ rc.call.view.bytes = SubSeq(rc.raw, Low(off) + 1, Low(off) + Low(size))
            ELSE rc.call.fault = "assert"


\* width * height * k without any overflow
ExactPixels(h, k) == WideMul(Mul16(h.texWidth, h.texHeight), k)

\* C16: a texture header passes the size check that gates decoding and upload only
\* when its declared size equals width * height * realBpp / 8
C16_CheckOnlyWhenSizeMatches ==
    px.op = "header" =>
        (px.out.check => px.h.texSize = U32Div8(ExactPixels(px.h, px.out.real)))

\* C17: the real bpp is 32 exactly when the declared size equals width * height * 4,
\* and the declared bpp otherwise
C17_RealBppRule ==
    px.op = "header" =>
        px.out.real = IF px.h.texSize = ExactPixels(px.h, 4) THEN 32 ELSE px.h.bpp

\* the position (0-based) whose colour ends up at position pos of a palette of n
\* colours when every run of 16 at 8 + 32k that lies inside the palette has its halves
\* exchanged
SwappedSource(n, pos) ==
    IF pos < SwapStart THEN pos
    ELSE LET off   == (pos - SwapStart) % swapDistance
             start == pos - off
         IN  IF off < 2 * swapSize /\ start + 2 * swapSize <= n
             THEN IF off < swapSize THEN pos + swapSize ELSE pos - swapSize
             ELSE pos

\* C18: the palette comes out with the two halves of every run of 16 colours at
\* 8 + 32k exchanged when the run lies inside the palette, and everything else in
\* place
C18_SwapsEveryFullRun ==
    px.op = "swap" =>
        /\ Len(px.out.palette) = Len(px.palette)
        /\ \A i \in 1..Len(px.palette) :
              px.out.palette[i] = px.palette[SwappedSource(Len(px.palette), i - 1) + 1]

\* a texture the de-distortion loop takes without clamping
Aligned(h) ==
    /\ h.texWidth > DistortionWidth
    /\ h.texWidth % WidthBlock = 0
    /\ h.texHeight % HeightBlock = 0

ValidatedPaletted(h) == TextureCheck(h, "wrap") /\ GetRealBPP(h, "wrap") = 8

\* C22: for every validated texture of real bpp 8 and width above 96, aligned or
\* clamped, the assertion that the index stream is exactly consumed holds when the
\* de-distortion loop has ended
C22_ConsumptionAssertionHolds ==
    (px.op = "decode" /\ ValidatedPaletted(px.h) /\ px.h.texWidth > DistortionWidth) =>
        ~(px.out.fault = "assert" /\ px.out.at = "consumed")

\* C23: up to width 96 the paletted branch ends without a failed assertion for every
\* index stream of valid palette positions, and the k-th index byte gives the r, g, b
\* of its palette entry at output bytes [3k, 3k + 3), in input order
C23_DirectLookup ==
    (/\ px.op = "decode" /\ px.h.texWidth <= DistortionWidth
     /\ \A k \in 1..Len(px.raw) : px.raw[k] < Len(px.palette)) =>
        /\ px.out.fault = "none"
        /\ px.out.upload.done
        /\ Len(px.out.upload.data) = 3 * Len(px.raw)
        /\ \A k \in 1..Len(px.raw) : \A c \in 1..3 :
              px.out.upload.data[3 * (k - 1) + c] = px.palette[px.raw[k] + 1][c]

\* bit k of v, and the bitwise exclusive or of two bytes
Bit(v, k) == (v \div (2 ^ k)) % 2

XorBits(a, b) ==
    LET bit(k) == (Bit(a, k) + Bit(b, k)) % 2
    IN  bit(0) + 2 * bit(1) + 4 * bit(2) + 8 * bit(3) + 16 * bit(4) + 32 * bit(5)
        + 64 * bit(6) + 128 * bit(7)

\* ((i << 2) & 0xF) + ((i >> 2) & 0xF) bit by bit, then the two exclusive ors
ReferenceXOffset(i, flag) ==
    LET shl  == 4 * Bit(i, 0) + 8 * Bit(i, 1)
        shr  == Bit(i, 2) + 2 * Bit(i, 3) + 4 * Bit(i, 4) + 8 * Bit(i, 5)
        bent == IF i > 16 /\ Bit(i, 0) = 1 THEN XorBits(shl + shr, 8) % 16 ELSE shl + shr
    IN  IF flag THEN XorBits(bent, 4) ELSE bent

\* C24: for every position i of a group, every tile base and both values of the flag
\* the computed buffer index is width * y + x of the reference: x = (tileBaseX +
\* xoffset) mod width, y = tileBaseY + 2 for odd i and tileBaseY for even i
C24_IndexMatchesReference ==
    px.op = "tile" =>
        \A i \in 0..31 :
            px.out.idx[i + 1] =
                px.w * (px.y + (IF Bit(i, 0) = 1 THEN 2 ELSE 0))
                + ((px.x + ReferenceXOffset(i, px.flip)) % px.w)

C24_Witness ==
    /\ px.op = "tile" /\ px.flip /\ px.x = 96 /\ px.y = 5 /\ px.w = 112
    /\ px.out.idx[18] = px.w * 7 + 100

\* the cells of row r under the 16 columns of the tile at base x
TileCells(w, x, r) == {w * r + x + c : c \in 0..15}

\* C28: for block-aligned dimensions every cell of the width x height index buffer is
\* written exactly once; within one group the even positions cover the 16 columns of
\* row y once and the odd positions the 16 columns of row y + 2 once
C28_Bijection ==
    /\ (px.op = "decode" /\ Aligned(px.h)) =>
          /\ Len(px.out.hits) = px.h.texWidth * px.h.texHeight
          /\ px.out.it = Len(px.out.hits)
          /\ \A k \in 1..Len(px.out.hits) : px.out.hits[k] = 1
    /\ px.op = "tile" =>
          LET at(parity) == {k \in 1..32 : (k - 1) % 2 = parity}
          IN  /\ {px.out.idx[k] : k \in at(0)} = TileCells(px.w, px.x, px.y)
              /\ {px.out.idx[k] : k \in at(1)} = TileCells(px.w, px.x, px.y + 2)
              /\ \A j, k \in 1..32 : px.out.idx[j] = px.out.idx[k] => j = k

C28_Witness ==
    /\ px.op = "decode" /\ Aligned(px.h)
    /\ px.h.texWidth = 112 /\ px.h.texHeight = 8
    /\ px.out.it = 896
    /\ px.out.hits[896] = 1

\* C21: a cached resource is unloaded when, and only when, the last resource_ref to
\* it is destroyed: as long as a resource_ref to a path is live its entry is in
\* loadedResources, and once none is left the entry is gone
C21_UnloadedIffLastRefGone ==
    (man.op \notin {"idle", "new"} /\ man.fault = "none") =>
        \A path \in Paths :
            /\ man.live[path] > 0 => path \in DOMAIN man.loadedResources
            /\ man.live[path] = 0 => path \notin DOMAIN man.loadedResources
            /\ (man.unloaded /\ man.path = path) => man.live[path] = 0

\* C27: no assertion of resource_manager fails, and the stored count of every entry
\* is the number of live resource_ref objects to it
C27_CountTracksRefs ==
    man.op \notin {"idle", "new"} =>
        /\ man.fault # "assert"
        /\ man.fault = "none" =>
              \A path \in DOMAIN man.loadedResources :
                  man.loadedResources[path].referenceCount = man.live[path]

\* the asset's bytes start with a valid preheader
StartsWithPreheader(asset) ==
    Len(asset) >= PreheaderSize /\ PreheaderCheck(Preheader(asset))

\* C25: Load first tries the asset as a preheader resource; with a valid preheader the
\* texture header is the sub-header copied from byte offset 64 of the asset, otherwise
\* the preheader resource ends unloaded and the texture header is loaded from the
\* start of the asset; the header then validated is the one so selected
C25_HeaderSelection ==
    (px.op = "Load" /\ px.asset # NotInArchive) =>
        /\ px.out.at \notin {"preheader.LoadFromFile", "preheader.Check", "header_rc"}
        /\ IF StartsWithPreheader(px.asset)
           THEN /\ px.out.selected = "sub"
                /\ px.out.header = SubSeq(px.asset, PreheaderSize + 1, Len(px.asset))
           ELSE /\ px.out.selected = "file"
                /\ px.out.preheader = <<>>
                /\ px.out.header \in {px.asset, <<>>}

\* numFiles of the header of the mapped section
NumFiles(bytes) == Low(ReadU32(bytes, 5))

\* C30: LoadFile by index with an index at or above the header's numFiles reads no
\* entry record and is rejected, by an assertion or with NotFound, also when the
\* mapped file holds 16 bytes at sizeof(header) + index * 16
C30_IndexBelowNumFiles ==
    (/\ last.op = "LoadFile" /\ ~last.byName
     /\ file.open /\ Len(file.bytes) >= SubarcHeaderSize
     /\ last.index >= NumFiles(file.bytes)) =>
        /\ ~last.read
        /\ fault = "assert" \/ last.ret = arcFileNotFound

\* the rows 0, 1, 4, 5, 8, 9, ... below limit, in order
RECURSIVE RowCursors(_, _)
RowCursors(y, limit) ==
    IF y >= limit THEN <<>>
    ELSE <<y>> \o RowCursors(IF y % 2 = 0 THEN y + 1 ELSE y + 3, limit)

\* C26: for every width above 96 and every height the de-distortion loop ends by
\* leaving the loop (no failed assertion, no wild access inside it); the row cursor
\* visits 0, 1, 4, 5, 8, 9, ... and the loop exits the first time the cursor reaches
\* the clamped height, so the rows visited are exactly those below it
C26_LoopExitsAtClampedHeight ==
    (px.op = "decode" /\ px.h.texWidth > DistortionWidth) =>
        /\ px.out.at # "loop"
        /\ px.out.rows = RowCursors(0, px.out.texHeight)
        /\ px.out.y = px.out.texHeight

\* C29: for every validated paletted texture of width above 96 and any height the
\* loop reads no index byte at or past the end of the raw data and writes no cell at
\* or past the end of the index buffer
C29_LoopStaysInBounds ==
    (px.op = "decode" /\ ValidatedPaletted(px.h) /\ px.h.texWidth > DistortionWidth) =>
        ~(px.out.at = "loop" /\ px.out.fault = "ub")

====
